---- MODULE Spec2Model ----
(***************************************************************************)
(* A model of the Plant API's query builder (utils/queryBuilder.js, kept   *)
(* as src/unnamed/part_000), of the plant routes that write stock, sale    *)
(* and categories (src/routes/users.js) and of the category delete route   *)
(* (src/unnamed/part_002).                                                 *)
(*                                                                         *)
(* JavaScript strings are sequences of one-character strings, so that      *)
(* parseInt, startsWith, substring, the regex escape and the regex match   *)
(* are computed character by character as the engine computes them.        *)
(* JavaScript values are tagged records: Undef, Str(s), Arr(a), Obj(o).    *)
(***************************************************************************)
EXTENDS Integers, Sequences, FiniteSets, TLC

VARIABLES
    req,              \* req.query of the invocation: a record of tagged values
    options,          \* the options argument of queryBuilder
    pc,               \* where the invocation stands
    page, limit, skip,
    sortObject,       \* <<field, direction>>, direction 1 or -1
    filterToProcess,  \* the filter source: a sequence of <<field, value>>
    filterObject,     \* function from key to predicate
    totalCount,       \* result of countDocuments
    data,             \* result of the fetch: a sequence of document ids
    fetchArgs,        \* what the fetch was given: filter, sort, skip, limit
    countArgs,        \* what the count was given
    response,         \* the envelope, NoValue until it is returned
    thrown,           \* the error caught by the catch block, NoValue when none
    error,            \* the error queryBuilder raised, NoValue when none
    calls,            \* the calls made to the store so far, in order
    db,               \* the collection: the set of ids of its documents
    writes,           \* writes other requests have made so far
    plant,            \* the plant document of the purchase route
    buy,              \* per purchase request: its position and its answer
    fv,               \* the filter value and text of the predicate check
    peer,             \* a second invocation of queryBuilder, while it is suspended
    cat,              \* the categories, the plants' categories and the requests on them
    sale              \* the create, update, sale and stock requests on the plant

qbVars    == <<req, options, pc, page, limit, skip, sortObject, filterToProcess,
               filterObject, totalCount, data, fetchArgs, countArgs, response,
               thrown, error, calls>>
storeVars == <<db, writes>>
buyVars   == <<plant, buy>>
vars      == <<qbVars, storeVars, buyVars, fv, peer, cat, sale>>

-----------------------------------------------------------------------------
(* Strings used as field names by the routes that call queryBuilder.       *)
s_name == <<"n","a","m","e">>
s_status == <<"s","t","a","t","u","s">>
s_createdAt == <<"c","r","e","a","t","e","d","A","t">>
s_updatedAt == <<"u","p","d","a","t","e","d","A","t">>
s_price == <<"p","r","i","c","e">>
s_stockCount == <<"s","t","o","c","k","C","o","u","n","t">>
s_description == <<"d","e","s","c","r","i","p","t","i","o","n">>
s_categoriesIds == <<"c","a","t","e","g","o","r","i","e","s","I","d","s">>
s_height == <<"h","e","i","g","h","t">>
s_humidity == <<"h","u","m","i","d","i","t","y">>
s_temperature == <<"t","e","m","p","e","r","a","t","u","r","e">>
s_watering == <<"w","a","t","e","r","i","n","g">>
s_sunlight == <<"s","u","n","l","i","g","h","t">>
s_nutrients == <<"n","u","t","r","i","e","n","t","s">>
s_forSale == <<"f","o","r","S","a","l","e">>
s_firstName == <<"f","i","r","s","t","N","a","m","e">>
s_lastName == <<"l","a","s","t","N","a","m","e">>
s_email == <<"e","m","a","i","l">>
s_or == <<"$","o","r">>

-----------------------------------------------------------------------------
(* JavaScript values.                                                      *)
Undef  == [t |-> "undef"]
Str(s) == [t |-> "str", s |-> s]
Arr(a) == [t |-> "arr", a |-> a]
Obj(o) == [t |-> "obj", o |-> o]
JsNull == [t |-> "null"]
Num(n) == [t |-> "num", n |-> n]
NoValue == [t |-> "none"]

IsStr(v) == v.t = "str"

\* ToBoolean: undefined and the empty string are falsy; every array and
\* object is truthy.
Truthy(v) ==
    CASE v.t = "undef" -> FALSE
      [] v.t = "null"  -> FALSE
      [] v.t = "str"   -> v.s # <<>>
      [] v.t = "num"   -> v.n # 0
      [] OTHER         -> TRUE

\* Math.max / Math.min on integers.
Max(a, b) == IF a >= b THEN a ELSE b
Min(a, b) == IF a <= b THEN a ELSE b

-----------------------------------------------------------------------------
(* parseInt(string) with no radix, and Number.parseInt(string, 10).        *)
NaN == [nan |-> TRUE, n |-> 0]
Int32(n) == [nan |-> FALSE, n |-> n]

IsWhiteSpace(c) == c \in {" "}
IsDigit(c) == c \in {"0","1","2","3","4","5","6","7","8","9"}
DigitVal(c) ==
    CASE c = "0" -> 0 [] c = "1" -> 1 [] c = "2" -> 2 [] c = "3" -> 3
      [] c = "4" -> 4 [] c = "5" -> 5 [] c = "6" -> 6 [] c = "7" -> 7
      [] c = "8" -> 8 [] c = "9" -> 9

RECURSIVE StripLeading(_)
StripLeading(s) ==
    IF s # <<>> /\ IsWhiteSpace(Head(s)) THEN StripLeading(Tail(s)) ELSE s

\* The longest prefix of s made of decimal digits.
RECURSIVE DigitPrefix(_)
DigitPrefix(s) ==
    IF s # <<>> /\ IsDigit(Head(s)) THEN <<Head(s)>> \o DigitPrefix(Tail(s)) ELSE <<>>

RECURSIVE DigitsValue(_, _)
DigitsValue(s, acc) ==
    IF s = <<>> THEN acc ELSE DigitsValue(Tail(s), 10 * acc + DigitVal(Head(s)))

\* parseInt on a string: leading white space is skipped, one sign is read,
\* then the longest run of digits; no digit at all gives NaN.  (No input of
\* the model starts with 0x, the one case where the radix is not 10.)
ParseIntStr(s) ==
    LET t    == StripLeading(s)
        neg  == t # <<>> /\ Head(t) = "-"
        body == IF t # <<>> /\ Head(t) \in {"-", "+"} THEN Tail(t) ELSE t
        ds   == DigitPrefix(body)
    IN  IF ds = <<>> THEN NaN
        ELSE Int32(IF neg THEN 0 - DigitsValue(ds, 0) ELSE DigitsValue(ds, 0))

RECURSIVE JoinComma(_)
JoinComma(a) ==
    IF a = <<>> THEN <<>>
    ELSE IF Len(a) = 1 THEN a[1]
    ELSE a[1] \o <<",">> \o JoinComma(Tail(a))

\* ToString of a value, as parseInt applies it to its argument.
ToStringJs(v) ==
    CASE v.t = "str"   -> v.s
      [] v.t = "arr"   -> JoinComma(v.a)
      [] v.t = "undef" -> <<"u","n","d","e","f","i","n","e","d">>
      [] OTHER         -> <<"[","o","b","j","e","c","t"," ","O","b","j","e","c","t","]">>

parseInt(v) == ParseIntStr(ToStringJs(v))

\* x || d for a parseInt result: NaN and 0 are falsy.
OrDefault(x, d) == IF x.nan \/ x.n = 0 THEN d ELSE x.n

-----------------------------------------------------------------------------
(* Configuration: the built-in defaults and the options of the call sites. *)
defaults ==
    [defaultLimit |-> 100, maxLimit |-> 100, defaultSort |-> s_createdAt,
     allowedSortFields |-> <<>>, allowedFilterFields |-> <<>>]

\* { ...defaults, ...options }
Merge(d, o) == [k \in DOMAIN d \cup DOMAIN o |-> IF k \in DOMAIN o THEN o[k] ELSE d[k]]

\* queryBuilder(Model, req) with no options argument.
NoOptions == [k \in {} |-> 0]

\* GET /users
UsersOptions ==
    [allowedSortFields |-> <<s_firstName, s_lastName, s_createdAt>>,
     allowedFilterFields |-> <<s_status>>,
     searchFields |-> <<s_firstName, s_lastName, s_email>>,
     defaultLimit |-> 10, maxLimit |-> 100]

\* GET /plants
PlantsOptions ==
    [defaultLimit |-> 20, maxLimit |-> 100, defaultSort |-> s_createdAt,
     allowedSortFields |-> <<s_name, s_status, s_createdAt, s_updatedAt, s_price, s_stockCount>>,
     allowedFilterFields |-> <<s_name, s_description, s_status, s_categoriesIds,
                               s_height, s_humidity, s_temperature, s_watering,
                               s_sunlight, s_nutrients, s_forSale, s_price, s_stockCount>>,
     searchFields |-> <<s_name, s_description, s_height, s_humidity, s_temperature>>,
     dateField |-> s_createdAt]

\* GET /categories/:id/plants
CategoryPlantsOptions ==
    [defaultLimit |-> 5, maxLimit |-> 50, defaultSort |-> s_createdAt,
     allowedSortFields |-> <<s_name, s_status, s_createdAt>>,
     allowedFilterFields |-> <<s_name, s_description, s_status, s_categoriesIds>>,
     searchFields |-> <<s_name, s_description>>,
     dateField |-> s_createdAt]

CallSites == {"none", "users", "plants", "categoryPlants"}
OptionsOf(site) ==
    CASE site = "users"          -> UsersOptions
      [] site = "plants"         -> PlantsOptions
      [] site = "categoryPlants" -> CategoryPlantsOptions
      [] OTHER                   -> NoOptions

Config(o) == Merge(defaults, o)

\* Array.prototype.includes on an array of strings.
Includes(a, x) == \E i \in 1..Len(a) : a[i] = x

-----------------------------------------------------------------------------
(* 1. Pagination.                                                          *)
\* PageOf without the lower bound of 1.
PageOf_Unclamped(q) == OrDefault(parseInt(q.page), 1)

PageOf(q) == Max(1, OrDefault(parseInt(q.page), 1))

\* LimitOf without the cap at maxLimit.
LimitOf_Uncapped(q, config) ==
    Max(1, OrDefault(parseInt(q.limit), config.defaultLimit))

LimitOf(q, config) ==
    Min(Max(1, OrDefault(parseInt(q.limit), config.defaultLimit)), config.maxLimit)

\* SkipOf counting pages from 0.
SkipOf_FromPageZero(p, l) == p * l

SkipOf(p, l) == (p - 1) * l

-----------------------------------------------------------------------------
(* 2. Sorting.  A sort object is a function from its one key to 1 or -1.   *)
\* SortOn with the direction always ascending.
SortOn_Ascending(field, dir) == [k \in {field} |-> 1]

SortOn(field, dir) == [k \in {field} |-> dir]

\* A sort parameter that is an array or an object has no startsWith method.
SortThrows(q) == Truthy(q.sort) /\ ~IsStr(q.sort)

\* SortAllowed taking every allowlist for the empty one.
SortAllowed_Unchecked(config, fieldName) ==
    Len(config.allowedSortFields) >= 0 \/ Includes(config.allowedSortFields, fieldName)

SortAllowed(config, fieldName) ==
    Len(config.allowedSortFields) = 0 \/ Includes(config.allowedSortFields, fieldName)

SortObjectOf(q, config) ==
    IF Truthy(q.sort)
    THEN LET sortField    == q.sort.s
             isDescending == Head(sortField) = "-"
             fieldName    == IF isDescending THEN Tail(sortField) ELSE sortField
         IN  IF SortAllowed(config, fieldName)
             THEN SortOn(fieldName, IF isDescending THEN -1 ELSE 1)
             ELSE SortOn(config.defaultSort, -1)
    ELSE SortOn(config.defaultSort, -1)

-----------------------------------------------------------------------------
(* 3. The filter source.  An object is a sequence of <<key, value>> pairs  *)
(* in insertion order; q.bracket holds the parameters whose key has the    *)
(* form filter[<field>], as <<field, value>>.                              *)
IsObject(v) == v.t \in {"obj", "arr"}

IndexKey(i) == <<CASE i = 1 -> "0" [] i = 2 -> "1" [] i = 3 -> "2" [] OTHER -> "3">>

\* Object.keys with the values: an array's keys are its indices.
Entries(v) ==
    IF v.t = "obj" THEN v.o
    ELSE IF v.t = "arr" THEN [i \in 1..Len(v.a) |-> <<IndexKey(i), Str(v.a[i])>>]
    ELSE <<>>

\* FilterToProcessOf preferring the filter[<field>] keys to the object.
FilterToProcessOf_BracketsFirst(q) ==
    IF Len(q.bracket) > 0 THEN Obj(q.bracket) ELSE q.filter

FilterToProcessOf(q) ==
    IF ~Truthy(q.filter) \/ ~IsObject(q.filter)
    THEN LET manualFilter == q.bracket
         IN  IF Len(manualFilter) > 0 THEN Obj(manualFilter) ELSE q.filter
    ELSE q.filter

-----------------------------------------------------------------------------
(* String helpers of the filter step.                                      *)
RECURSIVE TrimStart(_)
TrimStart(s) == IF s # <<>> /\ IsWhiteSpace(Head(s)) THEN TrimStart(Tail(s)) ELSE s

RECURSIVE TrimEnd(_)
TrimEnd(s) ==
    IF s # <<>> /\ IsWhiteSpace(s[Len(s)]) THEN TrimEnd(SubSeq(s, 1, Len(s) - 1)) ELSE s

\* String.prototype.trim
Trim(s) == TrimEnd(TrimStart(s))

\* String.prototype.includes(',')
HasComma(s) == \E i \in 1..Len(s) : s[i] = ","

\* String.prototype.split(','): cur is the piece being read.
RECURSIVE SplitFrom(_, _)
SplitFrom(s, cur) ==
    IF s = <<>> THEN <<cur>>
    ELSE IF Head(s) = "," THEN <<cur>> \o SplitFrom(Tail(s), <<>>)
    ELSE SplitFrom(Tail(s), Append(cur, Head(s)))

Split(s) == SplitFrom(s, <<>>)

\* The characters of the class [.*+?^${}()|[\]\\].
EscapedChars == {".", "*", "+", "?", "^", "$", "{", "}", "(", ")", "|", "[", "]", "\\"}

\* NeedsEscape with the star left out of the class.
NeedsEscape_NoStar(c) == c \in EscapedChars \ {"*"}

\* Whether the class matches character c.
NeedsEscape(c) == c \in EscapedChars

\* filterValue.replace(/[.*+?^${}()|[\]\\]/g, '\\$&')
RECURSIVE EscapeRegex(_)
EscapeRegex(s) ==
    IF s = <<>> THEN <<>>
    ELSE (IF NeedsEscape(Head(s)) THEN <<"\\", Head(s)>> ELSE <<Head(s)>>)
         \o EscapeRegex(Tail(s))

-----------------------------------------------------------------------------
(* Regular expressions, for the patterns the model's alphabet can spell:   *)
(* a literal character, '.', a character escaped with a backslash, each    *)
(* optionally followed by '*'.  A pattern compiles to a sequence of atoms  *)
(* or is a syntax error.                                                   *)
Atom(kind, c, star) == [kind |-> kind, c |-> c, star |-> star]

\* The atoms of pattern p read so far are acc; ok is FALSE on a syntax error.
RECURSIVE CompileFrom(_, _)
CompileFrom(p, acc) ==
    IF p = <<>> THEN [ok |-> TRUE, atoms |-> acc]
    ELSE IF Head(p) = "\\"
         THEN IF Len(p) < 2 THEN [ok |-> FALSE, atoms |-> <<>>]   \* \ at end of pattern
              ELSE CompileFrom(Tail(Tail(p)), Append(acc, Atom("lit", p[2], FALSE)))
    ELSE IF Head(p) = "*"
         THEN IF acc = <<>> \/ acc[Len(acc)].star
              THEN [ok |-> FALSE, atoms |-> <<>>]                   \* nothing to repeat
              ELSE CompileFrom(Tail(p),
                       [acc EXCEPT ![Len(acc)] = Atom(@.kind, @.c, TRUE)])
    ELSE IF Head(p) = "."
         THEN CompileFrom(Tail(p), Append(acc, Atom("any", ".", FALSE)))
    ELSE CompileFrom(Tail(p), Append(acc, Atom("lit", Head(p), FALSE)))

\* new RegExp(source, 'i')
Compile(p) == CompileFrom(p, <<>>)

\* Case folding under the i flag, on the letters of the model's alphabet.
Fold(c) == CASE c = "A" -> "a" [] c = "B" -> "b" [] OTHER -> c

AtomMatches(a, c) == a.kind = "any" \/ Fold(a.c) = Fold(c)

\* Whether atoms match a prefix of text t.
RECURSIVE MatchHere(_, _)
MatchHere(atoms, t) ==
    IF atoms = <<>> THEN TRUE
    ELSE LET a == Head(atoms) IN
         IF a.star
         THEN MatchHere(Tail(atoms), t)
              \/ (t # <<>> /\ AtomMatches(a, Head(t)) /\ MatchHere(atoms, Tail(t)))
         ELSE t # <<>> /\ AtomMatches(a, Head(t)) /\ MatchHere(Tail(atoms), Tail(t))

\* RegExp.prototype.test without anchors: a match may start anywhere.
RegexTest(atoms, t) ==
    \E i \in 1..(Len(t) + 1) : MatchHere(atoms, SubSeq(t, i, Len(t)))

\* t contains v as a literal substring, letter case ignored.
ContainsIgnoreCase(t, v) ==
    \E i \in 1..(Len(t) - Len(v) + 1) :
        \A j \in 1..Len(v) : Fold(t[i + j - 1]) = Fold(v[j])

-----------------------------------------------------------------------------
(* Predicates of a filter object.                                          *)
Exact(v)        == [op |-> "eq", v |-> v]                  \* field: value
RegexI(src)     == [op |-> "regex", src |-> src]           \* { $regex: /src/i }
InSet(vs)       == [op |-> "in", vs |-> vs]                \* { $in: vs }
Range(gte, lte) == [op |-> "range", gte |-> gte, lte |-> lte]
AnyOf(conds)    == [op |-> "or", conds |-> conds]          \* $or: [{field: pred}, ...]
ObjectId(n)     == [t |-> "id", n |-> n]

EmptyObject == [k \in {} |-> 0]

\* obj[key] = val
Put(obj, key, val) ==
    [k \in DOMAIN obj \cup {key} |-> IF k = key THEN val ELSE obj[k]]

\* FilterAllowed taking every allowlist for the empty one.
FilterAllowed_Unchecked(config, field) ==
    Len(config.allowedFilterFields) >= 0 \/ Includes(config.allowedFilterFields, field)

FilterAllowed(config, field) ==
    Len(config.allowedFilterFields) = 0 \/ Includes(config.allowedFilterFields, field)

\* FieldPredicate asking for the field status first.
FieldPredicate_StatusFirst(field, filterValue) ==
    IF IsStr(filterValue) /\ field = s_status
    THEN Exact(filterValue)
    ELSE IF IsStr(filterValue) /\ HasComma(filterValue.s)
         THEN InSet([i \in 1..Len(Split(filterValue.s)) |-> Trim(Split(filterValue.s)[i])])
         ELSE IF IsStr(filterValue)
              THEN RegexI(EscapeRegex(filterValue.s))
              ELSE Exact(filterValue)

\* The predicate of one accepted field.
FieldPredicate(field, filterValue) ==
    IF IsStr(filterValue) /\ HasComma(filterValue.s)
    THEN InSet([i \in 1..Len(Split(filterValue.s)) |-> Trim(Split(filterValue.s)[i])])
    ELSE IF IsStr(filterValue)
         THEN IF field = s_status
              THEN Exact(filterValue)
              ELSE RegexI(EscapeRegex(filterValue.s))
         ELSE Exact(filterValue)

\* Object.keys(filterToProcess).forEach(...), on the entries not yet visited.
RECURSIVE FieldFilters(_, _, _)
FieldFilters(config, entries, obj) ==
    IF entries = <<>> THEN obj
    ELSE LET field == Head(entries)[1]
             value == Head(entries)[2]
         IN  FieldFilters(config, Tail(entries),
                 IF FilterAllowed(config, field)
                 THEN Put(obj, field, FieldPredicate(field, value))
                 ELSE obj)

\* 4. Global search.
HasSearch(q, opts) == Truthy(q.search) /\ "searchFields" \in DOMAIN opts

SearchConditions(q, opts) ==
    [i \in 1..Len(opts.searchFields) |->
        <<opts.searchFields[i], RegexI(ToStringJs(q.search))>>]

\* new RegExp(searchTerm, 'i') raises a SyntaxError on an invalid pattern.
SearchThrows(q, opts) ==
    HasSearch(q, opts) /\ Len(opts.searchFields) > 0 /\ ~Compile(ToStringJs(q.search)).ok

WithSearch(q, opts, obj) ==
    IF HasSearch(q, opts) THEN Put(obj, s_or, AnyOf(SearchConditions(q, opts))) ELSE obj

-----------------------------------------------------------------------------
(* Dates.  A time is a number of seconds since 1970-01-01T00:00:00Z.       *)
InvalidDate == [t |-> "date", valid |-> FALSE, time |-> 0]
DateAt(x)   == [t |-> "date", valid |-> TRUE, time |-> x]

\* Days from 1970-01-01 to the civil date y-m-d.
DaysFromCivil(y, m, d) ==
    LET yy  == IF m <= 2 THEN y - 1 ELSE y
        era == yy \div 400
        yoe == yy - era * 400
        mp  == (m + 9) % 12
        doy == (153 * mp + 2) \div 5 + d - 1
        doe == yoe * 365 + yoe \div 4 - yoe \div 100 + doy
    IN  era * 146097 + doe - 719468

\* new Date(string) on the date-only form YYYY-MM-DD (midnight UTC), as
\* Node reads it: a month of 1..12 and a day of 1..31, a day past the end of
\* the month counting on into the next.  The other strings of the model are
\* ones it reads as no date.
ParseDate(s) ==
    IF /\ Len(s) = 10
       /\ s[5] = "-" /\ s[8] = "-"
       /\ \A i \in {1, 2, 3, 4, 6, 7, 9, 10} : IsDigit(s[i])
    THEN LET y == DigitsValue(SubSeq(s, 1, 4), 0)
             m == DigitsValue(SubSeq(s, 6, 7), 0)
             d == DigitsValue(SubSeq(s, 9, 10), 0)
         IN  IF m \in 1..12 /\ d \in 1..31
             THEN DateAt((DaysFromCivil(y, m, 1) + d - 1) * 86400)
             ELSE InvalidDate
    ELSE InvalidDate

NewDate(v) == ParseDate(ToStringJs(v))

\* 5. Date range.
HasDateRange(q) == Truthy(q.date_from) \/ Truthy(q.date_to)

DateFieldOf(opts) ==
    IF "dateField" \in DOMAIN opts /\ opts.dateField # <<>> THEN opts.dateField ELSE s_createdAt

\* DateRange leaving out a bound that is no date.
DateRange_DropsInvalid(q) ==
    Range(IF Truthy(q.date_from) /\ NewDate(q.date_from).valid
              THEN NewDate(q.date_from) ELSE NoValue,
          IF Truthy(q.date_to) /\ NewDate(q.date_to).valid
              THEN NewDate(q.date_to) ELSE NoValue)

\* DateRange without the upper bound.
DateRange_NoUpperBound(q) ==
    Range(IF Truthy(q.date_from) THEN NewDate(q.date_from) ELSE NoValue, NoValue)

DateRange(q) ==
    Range(IF Truthy(q.date_from) THEN NewDate(q.date_from) ELSE NoValue,
          IF Truthy(q.date_to) THEN NewDate(q.date_to) ELSE NoValue)

WithDateRange(q, opts, obj) ==
    IF HasDateRange(q) THEN Put(obj, DateFieldOf(opts), DateRange(q)) ELSE obj

\* Lines 131-206: the field filters, then the search, then the date range,
\* written onto the filter object the category step left.
BuildFilterObject(q, opts, ftp, obj) ==
    WithDateRange(q, opts,
        WithSearch(q, opts,
            IF Truthy(ftp) /\ IsObject(ftp)
            THEN FieldFilters(Config(opts), Entries(ftp), obj)
            ELSE obj))

-----------------------------------------------------------------------------
(* The store.  The collection holds documents out of a fixed universe; a   *)
(* document is known by its id.                                            *)
MaxDocs == 3      \* ids of the documents that can be in the collection
MaxWrites == 1    \* writes of other requests during one invocation

s_active == <<"a","c","t","i","v","e">>
s_inactive == <<"i","n","a","c","t","i","v","e">>

DocIds == 1..MaxDocs

\* The documents: name, status (the schema's enum), createdAt, categoriesIds.
DocOf(id) ==
    CASE id = 1 -> [id |-> 1, name |-> <<"A","a">>, status |-> s_active,
                    createdAt |-> DaysFromCivil(2023, 12, 31) * 86400 + 43200,
                    categoriesIds |-> {1}]
      [] id = 2 -> [id |-> 2, name |-> <<"a","b">>, status |-> s_inactive,
                    createdAt |-> DaysFromCivil(2024, 1, 15) * 86400,
                    categoriesIds |-> {1, 2}]
      [] id = 3 -> [id |-> 3, name |-> <<"b">>, status |-> s_active,
                    createdAt |-> DaysFromCivil(2024, 1, 31) * 86400 + 43200,
                    categoriesIds |-> {}]
      [] OTHER  -> [id |-> id, name |-> <<"a","*">>, status |-> s_active,
                    createdAt |-> DaysFromCivil(2024, 2, 1) * 86400 + id,
                    categoriesIds |-> {2}]

\* The categories collection: id and name.
CategoryIds == {1, 2}
CategoryName(c) == IF c = 1 THEN <<"A","a">> ELSE <<"b">>

\* Collation { locale: 'tr', strength: 1 }: letters compare by base letter,
\* case ignored.
RECURSIVE PrimaryKey(_)
PrimaryKey(s) == IF s = <<>> THEN <<>> ELSE <<Fold(Head(s))>> \o PrimaryKey(Tail(s))

\* The lookup comparing the names as they are written.
FindCategories_ExactCase(name) == {c \in CategoryIds : CategoryName(c) = name}

\* Categories.findOne({ name }).collation(...): the categories it may return.
FindCategories(name) == {c \in CategoryIds : PrimaryKey(CategoryName(c)) = PrimaryKey(name)}

\* The value a document has under a key of the filter or the sort.
DocField(d, key) ==
    CASE key = s_name          -> Str(d.name)
      [] key = s_status        -> Str(d.status)
      [] key = s_createdAt     -> DateAt(d.createdAt)
      [] key = s_categoriesIds -> [t |-> "ids", ids |-> d.categoriesIds]
      [] OTHER                 -> Undef

\* One predicate on one document.
FieldMatches(d, key, pred) ==
    LET v == DocField(d, key) IN
    CASE pred.op = "eq" ->
             \/ v.t = "str" /\ pred.v.t = "str" /\ v.s = pred.v.s
             \/ v.t = "ids" /\ pred.v.t = "id" /\ pred.v.n \in v.ids
             \/ v.t = "str" /\ pred.v.t = "arr"
                    /\ \E i \in 1..Len(pred.v.a) : pred.v.a[i] = v.s
      [] pred.op = "regex" ->
             v.t = "str" /\ Compile(pred.src).ok /\ RegexTest(Compile(pred.src).atoms, v.s)
      [] pred.op = "in" ->
             v.t = "str" /\ \E i \in 1..Len(pred.vs) : pred.vs[i] = v.s
      [] pred.op = "range" ->
             /\ v.t = "date"
             /\ pred.gte.t = "date" => v.time >= pred.gte.time
             /\ pred.lte.t = "date" => v.time <= pred.lte.time
      [] OTHER -> FALSE

PredMatches(d, key, pred) ==
    IF pred.op = "or"
    THEN \E i \in 1..Len(pred.conds) : FieldMatches(d, pred.conds[i][1], pred.conds[i][2])
    ELSE FieldMatches(d, key, pred)

\* The documents of collection S that a filter selects.
Matching(S, filter) ==
    {id \in S : \A k \in DOMAIN filter : PredMatches(DocOf(id), k, filter[k])}

\* The store refuses a filter it cannot cast: a date bound that is an
\* invalid date (CastError), or a $or that is not a list of conditions.
FilterRejected(filter) ==
    \E k \in DOMAIN filter :
        \/ /\ filter[k].op = "range"
           /\ \/ filter[k].gte.t = "date" /\ ~filter[k].gte.valid
              \/ filter[k].lte.t = "date" /\ ~filter[k].lte.valid
        \/ k = s_or /\ filter[k].op # "or"

\* Code units of the characters that document names and statuses use.
CharCode(c) ==
    CASE c = "*" -> 42 [] c = "." -> 46 [] c = "A" -> 65 [] c = "a" -> 97
      [] c = "b" -> 98 [] c = "c" -> 99 [] c = "e" -> 101 [] c = "i" -> 105
      [] c = "n" -> 110 [] c = "t" -> 116 [] c = "v" -> 118 [] OTHER -> 0

\* -1, 0 or 1 as string a sorts before, with or after string b.
RECURSIVE CompareStr(_, _)
CompareStr(a, b) ==
    IF a = <<>> /\ b = <<>> THEN 0
    ELSE IF a = <<>> THEN -1
    ELSE IF b = <<>> THEN 1
    ELSE IF CharCode(Head(a)) < CharCode(Head(b)) THEN -1
    ELSE IF CharCode(Head(a)) > CharCode(Head(b)) THEN 1
    ELSE CompareStr(Tail(a), Tail(b))

\* Documents compared on the sort field; a field no document has ties all.
CompareDocs(x, y, field) ==
    LET a == DocField(DocOf(x), field)
        b == DocField(DocOf(y), field)
    IN  CASE a.t = "str"  -> CompareStr(a.s, b.s)
          [] a.t = "date" -> IF a.time < b.time THEN -1 ELSE IF a.time > b.time THEN 1 ELSE 0
          [] OTHER        -> 0

SortField(sort) == CHOOSE k \in DOMAIN sort : TRUE

\* The orders in which the store may return S under a sort: ties are in
\* any order.
Orders(S, sort) ==
    {f \in [1..Cardinality(S) -> S] :
        /\ \A i, j \in 1..Cardinality(S) : i # j => f[i] # f[j]
        /\ \A i, j \in 1..Cardinality(S) :
              i < j => CompareDocs(f[i], f[j], SortField(sort)) * sort[SortField(sort)] <= 0}

\* The limit applied before the skip.
Window_LimitFirst(f, sk, lim) == SubSeq(SubSeq(f, 1, Min(lim, Len(f))), sk + 1, Min(lim, Len(f)))

\* .skip(skip).limit(limit) on an ordered result.
Window(f, sk, lim) == SubSeq(f, sk + 1, Min(sk + lim, Len(f)))

-----------------------------------------------------------------------------
(* Requests.                                                               *)
s_secret == <<"s","e","c","r","e","t">>
d_2024_01_01 == <<"2","0","2","4","-","0","1","-","0","1">>
d_2024_01_31 == <<"2","0","2","4","-","0","1","-","3","1">>
d_2024_13_01 == <<"2","0","2","4","-","1","3","-","0","1">>

\* A request with no parameter.  base holds req.protocol, req.get('host'),
\* req.baseUrl and req.path.
NoQuery ==
    [page |-> Undef, limit |-> Undef, sort |-> Undef, filter |-> Undef, bracket |-> <<>>,
     search |-> Undef, date_from |-> Undef, date_to |-> Undef, categories |-> Undef,
     base |-> [protocol |-> <<"h","t","t","p">>, host |-> <<"a","p","i">>, baseUrl |-> <<"/","p","l","a","n","t","s">>, path |-> <<"/">>]]

\* Values of page and limit.
IntInputs ==
    {Undef, Str(<<>>), Str(<<"0">>), Str(<<"1">>), Str(<<"2">>), Str(<<"-","1">>),
     Str(<<"a">>), Str(<<"2","a">>), Str(<<" ","2">>), Str(<<"1",".","5">>),
     Str(<<"1","0","1">>), Arr(<< <<"2">>, <<"3">> >>)}

PagingRequests ==
    {[NoQuery EXCEPT !.page = p, !.limit = l] : p \in IntInputs, l \in IntInputs}

SortInputs ==
    {Str(<<>>), Str(s_name), Str(<<"-">> \o s_name), Str(s_secret), Str(<<"-">> \o s_secret),
     Str(<<"-">>), Str(s_updatedAt), Arr(<<s_name, s_secret>>)}

SortRequests ==
    {[NoQuery EXCEPT !.sort = st, !.limit = l] : st \in SortInputs, l \in {Undef, Str(<<"1">>)}}

\* The filter parameter and the filter[<field>] parameters of a request.
FilterInputs ==
    {[filter |-> Undef, bracket |-> <<>>],
     [filter |-> Undef, bracket |-> << <<s_name, Str(<<"a">>)>> >>],
     [filter |-> Undef, bracket |-> << <<s_price, Str(<<"1">>)>> >>],
     [filter |-> Undef, bracket |-> << <<s_status, Str(s_active)>> >>],
     [filter |-> Undef, bracket |-> << <<s_createdAt, Str(<<"a">>)>> >>],
     [filter |-> Undef, bracket |-> << <<s_categoriesIds, Str(<<"a">>)>> >>],
     [filter |-> Undef, bracket |-> << <<s_or, Str(<<"a">>)>> >>],
     [filter |-> Obj(<< <<s_name, Str(<<"a",".">>)>>, <<s_price, Str(<<"1">>)>> >>),
      bracket |-> <<>>],
     [filter |-> Obj(<< <<s_status, Str(s_active \o <<",", " ">> \o s_inactive)>> >>),
      bracket |-> << <<s_name, Str(<<"a">>)>> >>],
     [filter |-> Str(<<"a">>),
      bracket |-> << <<s_status, Arr(<<s_active, s_inactive>>)>> >>],
     [filter |-> Arr(<< <<"a">>, <<"b">> >>),
      bracket |-> << <<s_name, Str(<<"a">>)>> >>]}

SearchInputs == {Undef, Str(<<"a">>), Str(<<"*">>), Str(<<".">>)}

DateInputs ==
    {<<Undef, Undef>>, <<Str(d_2024_01_01), Undef>>, <<Undef, Str(d_2024_01_31)>>,
     <<Str(d_2024_01_01), Str(d_2024_01_31)>>, <<Str(d_2024_13_01), Undef>>,
     <<Str(d_2024_01_01), Str(<<"a","a">>)>>}

CategoryInputs == {Undef, Str(<<" ","a","a"," ">>), Str(<<"z">>)}

FilterRequests ==
    {[NoQuery EXCEPT !.filter = f.filter, !.bracket = f.bracket, !.search = se,
                     !.date_from = d[1], !.date_to = d[2], !.categories = c] :
        f \in FilterInputs, se \in SearchInputs, d \in DateInputs, c \in CategoryInputs}

OtherRequests == {[NoQuery EXCEPT !.categories = Arr(<< <<"a">>, <<"b">> >>)]}

Requests == PagingRequests \cup SortRequests \cup FilterRequests \cup OtherRequests

-----------------------------------------------------------------------------
(* 9. URL building.  req.query is read as its <<key, value>> pairs in      *)
(* insertion order; a URL is a string.                                     *)
ParamKey(name) ==
    CASE name = "page"       -> <<"p","a","g","e">>
      [] name = "limit"      -> <<"l","i","m","i","t">>
      [] name = "sort"       -> <<"s","o","r","t">>
      [] name = "filter"     -> <<"f","i","l","t","e","r">>
      [] name = "search"     -> <<"s","e","a","r","c","h">>
      [] name = "date_from"  -> <<"d","a","t","e","_","f","r","o","m">>
      [] name = "date_to"    -> <<"d","a","t","e","_","t","o">>
      [] name = "categories" -> <<"c","a","t","e","g","o","r","i","e","s">>

\* The key filter[<field>].
BracketKey(field) == ParamKey("filter") \o <<"[">> \o field \o <<"]">>

\* The pair of a parameter the request has, none for one it has not.
ParamPair(q, name) == IF q[name] = Undef THEN <<>> ELSE << <<ParamKey(name), q[name]>> >>

\* Line 260: { ...req.query }.
QueryParams(q) ==
    ParamPair(q, "page") \o ParamPair(q, "limit") \o ParamPair(q, "sort")
    \o ParamPair(q, "filter")
    \o [i \in 1..Len(q.bracket) |-> <<BracketKey(q.bracket[i][1]), q.bracket[i][2]>>]
    \o ParamPair(q, "search") \o ParamPair(q, "date_from") \o ParamPair(q, "date_to")
    \o ParamPair(q, "categories")

\* The printable ASCII characters encodeURIComponent does not leave as they
\* are (the grave accent, which no string of the model holds, is left out).
ReservedChars == {" ", "\"", "#", "$", "%", "&", "+", ",", "/", ":", ";", "<", "=", ">", "?", "@", "[", "\\", "]", "^", "{", "|", "}"}

PercentCode(c) ==
    CASE c = " " -> <<"%","2","0">>
      [] c = "\"" -> <<"%","2","2">>
      [] c = "#" -> <<"%","2","3">>
      [] c = "$" -> <<"%","2","4">>
      [] c = "%" -> <<"%","2","5">>
      [] c = "&" -> <<"%","2","6">>
      [] c = "+" -> <<"%","2","B">>
      [] c = "," -> <<"%","2","C">>
      [] c = "/" -> <<"%","2","F">>
      [] c = ":" -> <<"%","3","A">>
      [] c = ";" -> <<"%","3","B">>
      [] c = "<" -> <<"%","3","C">>
      [] c = "=" -> <<"%","3","D">>
      [] c = ">" -> <<"%","3","E">>
      [] c = "?" -> <<"%","3","F">>
      [] c = "@" -> <<"%","4","0">>
      [] c = "[" -> <<"%","5","B">>
      [] c = "\\" -> <<"%","5","C">>
      [] c = "]" -> <<"%","5","D">>
      [] c = "^" -> <<"%","5","E">>
      [] c = "{" -> <<"%","7","B">>
      [] c = "|" -> <<"%","7","C">>
      [] c = "}" -> <<"%","7","D">>
      [] OTHER -> <<c>>

RECURSIVE encodeURIComponent(_)
encodeURIComponent(s) ==
    IF s = <<>> THEN <<>> ELSE PercentCode(Head(s)) \o encodeURIComponent(Tail(s))

\* String(n) of an integer.
RECURSIVE DecimalOf(_)
DecimalOf(n) ==
    IF n < 0 THEN <<"-">> \o DecimalOf(0 - n)
    ELSE IF n < 10 THEN <<(<<"0","1","2","3","4","5","6","7","8","9">>)[n + 1]>>
    ELSE DecimalOf(n \div 10) \o DecimalOf(n % 10)

\* Line 257.
BaseUrlOf(q) ==
    q.base.protocol \o <<":","/","/">> \o q.base.host \o q.base.baseUrl \o q.base.path

\* Line 265: { ...queryParams, page: pageNum }; a key the object has keeps
\* its place, a new one goes last.
WithPage(params, pageNum) ==
    IF \E i \in 1..Len(params) : params[i][1] = ParamKey("page")
    THEN [i \in 1..Len(params) |->
            IF params[i][1] = ParamKey("page") THEN <<params[i][1], Num(pageNum)>> ELSE params[i]]
    ELSE Append(params, <<ParamKey("page"), Num(pageNum)>>)

\* The template `${value}` of line 270.
TemplateString(v) == IF v.t = "num" THEN DecimalOf(v.n) ELSE ToStringJs(v)

\* Lines 268-271: the pairs whose value is neither undefined nor '', each
\* as key=encodeURIComponent(value), joined with '&'.
RECURSIVE QueryString(_)
QueryString(params) ==
    IF params = <<>> THEN <<>>
    ELSE LET key   == Head(params)[1]
             value == Head(params)[2]
             rest  == QueryString(Tail(params))
         IN  IF value = Undef \/ value = Str(<<>>) THEN rest
             ELSE key \o <<"=">> \o encodeURIComponent(TemplateString(value))
                  \o (IF rest = <<>> THEN <<>> ELSE <<"&">> \o rest)

\* Lines 264-274.
buildUrl(q, pageNum) ==
    BaseUrlOf(q) \o <<"?">> \o QueryString(WithPage(QueryParams(q), pageNum))

\* hasNextPage counting the last page as having a next one.
HasNextPage_UpToLast(p, lastPage) == p <= lastPage

\* Lines 247-248.
HasNextPage(p, lastPage) == p < lastPage
HasPrevPage(p) == p > 1

-----------------------------------------------------------------------------
(* The invocation, one action per stretch of code between two awaits.      *)
Idle ==
    /\ page = 0 /\ limit = 0 /\ skip = 0
    /\ sortObject = EmptyObject
    /\ filterToProcess = Undef
    /\ filterObject = EmptyObject
    /\ totalCount = 0
    /\ data = <<>>
    /\ fetchArgs = NoValue /\ countArgs = NoValue
    /\ response = NoValue /\ thrown = NoValue /\ error = NoValue
    /\ calls = <<>>

NoPurchase == plant = NoValue /\ buy = <<>>
NoPredicateCheck == fv = NoValue
NoOtherRoute == peer = NoValue /\ cat = NoValue /\ sale = NoValue

Init ==
    /\ req \in Requests
    /\ \E site \in CallSites : options = OptionsOf(site)
    /\ pc = "start"
    /\ Idle
    /\ db = DocIds \ {MaxDocs}
    /\ writes = 0
    /\ NoPurchase
    /\ NoPredicateCheck
    /\ NoOtherRoute

Throw(name, message, at) == [t |-> "error", name |-> name, message |-> message, at |-> at]

\* Lines 24-121: pagination, sort, filter source, and the categories
\* parameter up to the resolver call.
ParseThrows ==
    /\ pc = "start"
    /\ SortThrows(req) \/ (Truthy(req.categories) /\ ~IsStr(req.categories))
    /\ thrown' = IF SortThrows(req)
                 THEN Throw("TypeError", <<"sortField.startsWith is not a function">>, "parse")
                 ELSE Throw("TypeError", <<"req.query.categories.trim is not a function">>, "parse")
    /\ pc' = "catch"
    /\ UNCHANGED <<req, options, page, limit, skip, sortObject, filterToProcess, filterObject,
                   totalCount, data, fetchArgs, countArgs, response, error>>
    /\ UNCHANGED calls
    /\ UNCHANGED <<storeVars, buyVars, fv, peer, cat, sale>>

Parse ==
    /\ pc = "start"
    /\ ~SortThrows(req)
    /\ ~(Truthy(req.categories) /\ ~IsStr(req.categories))
    /\ page' = PageOf(req)
    /\ limit' = LimitOf(req, Config(options))
    /\ skip' = SkipOf(page', limit')
    /\ sortObject' = SortObjectOf(req, Config(options))
    /\ filterToProcess' = FilterToProcessOf(req)
    /\ pc' = IF Truthy(req.categories) THEN "resolve" ELSE "build"
    /\ UNCHANGED <<req, options, filterObject, totalCount, data, fetchArgs, countArgs,
                   response, thrown, error>>
    /\ UNCHANGED calls
    /\ UNCHANGED <<storeVars, buyVars, fv, peer, cat, sale>>

\* Lines 121-129: the resolver answers with a category or with none.
Resolve ==
    /\ pc = "resolve"
    /\ LET categoriesName == Trim(req.categories.s)
           found == FindCategories(categoriesName)
       IN  \/ \E c \in found :
                /\ filterObject' = Put(filterObject, s_categoriesIds, Exact(ObjectId(c)))
                /\ calls' = Append(calls, [op |-> "findOne", name |-> categoriesName,
                                           result |-> ObjectId(c), rejected |-> FALSE])
           \/ /\ found = {}
              /\ filterObject' = filterObject
              /\ calls' = Append(calls, [op |-> "findOne", name |-> categoriesName,
                                         result |-> JsNull, rejected |-> FALSE])
    /\ pc' = "build"
    /\ UNCHANGED <<req, options, page, limit, skip, sortObject, filterToProcess,
                   totalCount, data, fetchArgs, countArgs, response, thrown, error>>
    /\ UNCHANGED <<storeVars, buyVars, fv, peer, cat, sale>>

\* Lines 131-223: the filter object is completed and the queries are built.
Build ==
    /\ pc = "build"
    /\ IF SearchThrows(req, options)
       THEN /\ thrown' = Throw("SyntaxError", <<"Invalid regular expression">>, "build")
            /\ pc' = "catch"
            /\ filterObject' = filterObject
       ELSE /\ filterObject' = BuildFilterObject(req, options, filterToProcess, filterObject)
            /\ pc' = "count"
            /\ thrown' = thrown
    /\ UNCHANGED <<req, options, page, limit, skip, sortObject, filterToProcess,
                   totalCount, data, fetchArgs, countArgs, response, error>>
    /\ UNCHANGED calls
    /\ UNCHANGED <<storeVars, buyVars, fv, peer, cat, sale>>

\* Line 230: await Model.countDocuments(filterObject).
Count ==
    /\ pc = "count"
    /\ IF FilterRejected(filterObject)
       THEN /\ thrown' = Throw("CastError", <<"Cast failed">>, "count")
            /\ pc' = "catch"
            /\ UNCHANGED <<totalCount, countArgs>>
       ELSE /\ totalCount' = Cardinality(Matching(db, filterObject))
            /\ countArgs' = [t |-> "count", filter |-> filterObject, db |-> db]
            /\ pc' = "fetch"
            /\ thrown' = thrown
    /\ UNCHANGED <<req, options, page, limit, skip, sortObject, filterToProcess,
                   filterObject, data, fetchArgs, response, error>>
    /\ calls' = Append(calls, [op |-> "countDocuments", filter |-> filterObject,
                                rejected |-> FilterRejected(filterObject)])
    /\ UNCHANGED <<storeVars, buyVars, fv, peer, cat, sale>>

\* Fetch counting again on the collection it reads.
Fetch_Recounts ==
    /\ pc = "fetch"
    /\ \E f \in Orders(Matching(db, filterObject), sortObject) :
          data' = Window(f, skip, limit)
    /\ totalCount' = Cardinality(Matching(db, filterObject))
    /\ fetchArgs' = [t |-> "fetch", filter |-> filterObject, sort |-> sortObject,
                     skip |-> skip, limit |-> limit, db |-> db]
    /\ pc' = "respond"
    /\ UNCHANGED <<req, options, page, limit, skip, sortObject, filterToProcess,
                   filterObject, countArgs, response, thrown, error>>
    /\ calls' = Append(calls, [op |-> "find", filter |-> filterObject, sort |-> sortObject,
                                skip |-> skip, limit |-> limit, rejected |-> FALSE])
    /\ UNCHANGED <<storeVars, buyVars, fv, peer, cat, sale>>

\* Lines 233-237: await query.sort(sortObject).skip(skip).limit(limit).exec().
Fetch ==
    /\ pc = "fetch"
    /\ \E f \in Orders(Matching(db, filterObject), sortObject) :
          data' = Window(f, skip, limit)
    /\ fetchArgs' = [t |-> "fetch", filter |-> filterObject, sort |-> sortObject,
                     skip |-> skip, limit |-> limit, db |-> db]
    /\ pc' = "respond"
    /\ UNCHANGED <<req, options, page, limit, skip, sortObject, filterToProcess,
                   filterObject, totalCount, countArgs, response, thrown, error>>
    /\ calls' = Append(calls, [op |-> "find", filter |-> filterObject, sort |-> sortObject,
                                skip |-> skip, limit |-> limit, rejected |-> FALSE])
    /\ UNCHANGED <<storeVars, buyVars, fv, peer, cat, sale>>

\* A rejected call that is not thrown: the invocation goes on.
StoreFails_GoesOn ==
    /\ pc \in {"resolve", "count", "fetch"}
    /\ pc' = CASE pc = "resolve" -> "build" [] pc = "count" -> "fetch" [] OTHER -> "respond"
    /\ UNCHANGED <<req, options, page, limit, skip, sortObject, filterToProcess, filterObject,
                   totalCount, data, fetchArgs, countArgs, response, thrown, error>>
    /\ calls' = Append(calls, [op |-> CASE pc = "resolve" -> "findOne"
                                          [] pc = "count" -> "countDocuments"
                                          [] OTHER -> "find",
                                rejected |-> TRUE])
    /\ UNCHANGED <<storeVars, buyVars, fv, peer, cat, sale>>

\* The resolver, the count or the fetch is rejected by the store.
StoreFails ==
    /\ pc \in {"resolve", "count", "fetch"}
    /\ thrown' = Throw("MongoNetworkError", <<"connection closed">>, pc)
    /\ pc' = "catch"
    /\ UNCHANGED <<req, options, page, limit, skip, sortObject, filterToProcess, filterObject,
                   totalCount, data, fetchArgs, countArgs, response, error>>
    /\ calls' = Append(calls, [op |-> CASE pc = "resolve" -> "findOne"
                                          [] pc = "count" -> "countDocuments"
                                          [] OTHER -> "find",
                                rejected |-> TRUE])
    /\ UNCHANGED <<storeVars, buyVars, fv, peer, cat, sale>>

\* Math.ceil(a / b) for a >= 0, b >= 1.
\* Ceil rounding down.
Ceil_RoundsDown(a, b) == a \div b

Ceil(a, b) == (a + b - 1) \div b

\* Line 287: totalCount > 0 ? skip + 1 : null.
FromOf(total, sk) == IF total > 0 THEN Num(sk + 1) ELSE JsNull

\* ToOf without the bound of the total.
ToOf_Unbounded(total, sk, lim) == IF total > 0 THEN Num(sk + lim) ELSE JsNull

\* Line 288: totalCount > 0 ? Math.min(skip + limit, totalCount) : null.
ToOf(total, sk, lim) == IF total > 0 THEN Num(Min(sk + lim, total)) ELSE JsNull

\* Line 301: Object.keys(sortObject)[0] || config.defaultSort; the empty
\* key is falsy.
SortByOf(sort, config) ==
    IF SortField(sort) # <<>> THEN SortField(sort) ELSE config.defaultSort

\* Line 302: Object.values(sortObject)[0] === 1 ? 'asc' : 'desc'.
SortDirectionOf(sort) == IF sort[SortField(sort)] = 1 THEN "asc" ELSE "desc"

\* Lines 244-304: the envelope of a request from the values of the
\* invocation's local variables.
EnvelopeOf(q, opts, pg, lim, sk, sort, filter, total, docs) ==
    [t |-> "envelope",
     data |-> docs,
     total |-> total,
     per_page |-> lim,
     current_page |-> pg,
     last_page |-> Ceil(total, lim),
     from |-> FromOf(total, sk),
     to |-> ToOf(total, sk, lim),
     path |-> Str(BaseUrlOf(q)),
     first_page_url |-> Str(buildUrl(q, 1)),
     last_page_url |-> Str(buildUrl(q, Ceil(total, lim))),
     next_page_url |-> IF HasNextPage(pg, Ceil(total, lim))
                       THEN Str(buildUrl(q, pg + 1)) ELSE JsNull,
     prev_page_url |-> IF HasPrevPage(pg) THEN Str(buildUrl(q, pg - 1)) ELSE JsNull,
     current_page_url |-> Str(buildUrl(q, pg)),
     query_info |->
        [filters_applied |-> Cardinality(DOMAIN filter),
         sort_by |-> SortByOf(sort, Config(opts)),
         sort_direction |-> SortDirectionOf(sort)]]

Envelope ==
    EnvelopeOf(req, options, page, limit, skip, sortObject, filterObject, totalCount, data)

Respond ==
    /\ pc = "respond"
    /\ response' = Envelope
    /\ pc' = "done"
    /\ UNCHANGED <<req, options, page, limit, skip, sortObject, filterToProcess, filterObject,
                   totalCount, data, fetchArgs, countArgs, thrown, error>>
    /\ UNCHANGED calls
    /\ UNCHANGED <<storeVars, buyVars, fv, peer, cat, sale>>

\* The fixed prefix of line 310 (written here without the dotless i).
QueryBuilderPrefix == <<"Query Builder Hatasi: ">>

\* Wrapped without the cause's message.
Wrapped_NoCause(e) == [t |-> "error", name |-> "Error", message |-> QueryBuilderPrefix]

\* Lines 308-311: throw new Error(`Query Builder Hatası: ${error.message}`).
Wrapped(e) == [t |-> "error", name |-> "Error", message |-> QueryBuilderPrefix \o e.message]

Catch ==
    /\ pc = "catch"
    /\ error' = Wrapped(thrown)
    /\ pc' = "failed"
    /\ UNCHANGED <<req, options, page, limit, skip, sortObject, filterToProcess, filterObject,
                   totalCount, data, fetchArgs, countArgs, response, thrown>>
    /\ UNCHANGED calls
    /\ UNCHANGED <<storeVars, buyVars, fv, peer, cat, sale>>

\* Other requests write the collection while the invocation runs:
\* POST /plants adds a document, DELETE /plants/:id removes one.
InFlight == pc \in {"start", "resolve", "build", "count", "fetch"}

InsertDoc ==
    /\ InFlight
    /\ writes < MaxWrites
    /\ \E id \in DocIds \ db : db' = db \cup {id}
    /\ writes' = writes + 1
    /\ UNCHANGED <<qbVars, buyVars, fv, peer, cat, sale>>

DeleteDoc ==
    /\ InFlight
    /\ writes < MaxWrites
    /\ \E id \in db : db' = db \ {id}
    /\ writes' = writes + 1
    /\ UNCHANGED <<qbVars, buyVars, fv, peer, cat, sale>>

\* One invocation of queryBuilder.
queryBuilder ==
    ParseThrows \/ Parse \/ Resolve \/ Build \/ Count \/ Fetch \/ StoreFails
    \/ Respond \/ Catch

Next == queryBuilder \/ InsertDoc \/ DeleteDoc

Spec == Init /\ [][Next]_vars

------------------------------------------------------------------------------
(* Two invocations of queryBuilder on one event loop.  Every variable of   *)
(* lines 28-304 is a const or let of the function body, so each invocation *)
(* has its own; one runs until it suspends at an await, then the other may *)
(* run.  peer holds the variables of the invocation that is not running.   *)

\* The variables of the running invocation.
Locals ==
    [req |-> req, options |-> options, pc |-> pc, page |-> page, limit |-> limit,
     skip |-> skip, sortObject |-> sortObject, filterToProcess |-> filterToProcess,
     filterObject |-> filterObject, totalCount |-> totalCount, data |-> data,
     fetchArgs |-> fetchArgs, countArgs |-> countArgs, response |-> response,
     thrown |-> thrown, error |-> error, calls |-> calls]

\* An invocation that has not begun.
NotBegun(q, opts) ==
    [req |-> q, options |-> opts, pc |-> "start", page |-> 0, limit |-> 0,
     skip |-> 0, sortObject |-> EmptyObject, filterToProcess |-> Undef,
     filterObject |-> EmptyObject, totalCount |-> 0, data |-> <<>>,
     fetchArgs |-> NoValue, countArgs |-> NoValue, response |-> NoValue,
     thrown |-> NoValue, error |-> NoValue, calls |-> <<>>]

\* Where an invocation waits: before it is called, at the awaits of lines
\* 121, 230 and 233, and after it has returned or thrown.
Suspended == pc \in {"start", "resolve", "count", "fetch", "done", "failed"}

\* The running invocation takes the peer's variables, all of them.
Resume ==
    /\ req' = peer.req /\ options' = peer.options /\ pc' = peer.pc
    /\ page' = peer.page /\ limit' = peer.limit /\ skip' = peer.skip
    /\ sortObject' = peer.sortObject /\ filterToProcess' = peer.filterToProcess
    /\ totalCount' = peer.totalCount /\ data' = peer.data
    /\ fetchArgs' = peer.fetchArgs /\ countArgs' = peer.countArgs
    /\ response' = peer.response /\ thrown' = peer.thrown /\ error' = peer.error
    /\ calls' = peer.calls

\* filterObject held outside the function body, one for both invocations.
Switch_SharedFilter ==
    /\ Suspended
    /\ peer' = Locals
    /\ Resume
    /\ filterObject' = filterObject
    /\ UNCHANGED <<storeVars, buyVars, fv, cat, sale>>

\* The event loop goes from the suspended invocation to the other one.
Switch ==
    /\ Suspended
    /\ peer' = Locals
    /\ Resume
    /\ filterObject' = peer.filterObject
    /\ UNCHANGED <<storeVars, buyVars, fv, cat, sale>>

PairSites == {"users", "plants"}

PairRequests ==
    {NoQuery,
     [NoQuery EXCEPT !.page = Str(<<"2">>), !.limit = Str(<<"1">>)],
     [NoQuery EXCEPT !.sort = Str(<<"-">> \o s_name), !.limit = Str(<<"1">>)],
     [NoQuery EXCEPT !.bracket = << <<s_name, Str(<<"a">>)>> >>, !.search = Str(<<"a">>),
                     !.date_from = Str(d_2024_01_01)],
     [NoQuery EXCEPT !.categories = Str(<<" ","a","a"," ">>)],
     [NoQuery EXCEPT !.categories = Str(<<"z">>), !.bracket = << <<s_status, Str(s_active)>> >>],
     [NoQuery EXCEPT !.search = Str(<<"*">>)],
     [NoQuery EXCEPT !.categories = Arr(<< <<"a">>, <<"b">> >>)]}

\* Two requests arrive; nobody writes the collection.
InitPair ==
    /\ req \in PairRequests
    /\ \E site \in PairSites : options = OptionsOf(site)
    /\ pc = "start"
    /\ Idle
    /\ \E q \in PairRequests, site \in PairSites : peer = NotBegun(q, OptionsOf(site))
    /\ db = DocIds \ {MaxDocs}
    /\ writes = 0
    /\ NoPurchase
    /\ NoPredicateCheck
    /\ cat = NoValue /\ sale = NoValue

NextPair == queryBuilder \/ Switch

SpecPair == InitPair /\ [][NextPair]_vars

------------------------------------------------------------------------------
(* DELETE /categories/:id (src/unnamed/part_002) next to the plant routes  *)
(* that write categoriesIds (src/routes/users.js).  Each await is one      *)
(* operation of the store; between two awaits of a request the other       *)
(* request may run.                                                        *)
MaxPlants == 2    \* plants in the collection when the requests arrive

PlantIds == 1..MaxPlants

\* A list of ids in a request body.
Ids(S) == [t |-> "ids", ids |-> S]

NewDelete(id) ==
    [pc |-> "start", id |-> id, found |-> FALSE, seen |-> NoValue, affected |-> {},
     changed |-> {}, after |-> NoValue, status |-> 0]

NewOther(kind, ids, body) ==
    [kind |-> kind, pc |-> "start", plantIds |-> ids, categoriesIds |-> body,
     existing |-> NoValue, status |-> 0]

\* The categories and the plants when DELETE /categories/:id and one plant
\* request arrive.  A plant has at least one category (POST /plants, line
\* 545).  The plant request is assign-categories with any plants and
\* categories, PUT /plants/:id without categoriesIds or with the categories
\* that are not being deleted, or DELETE /plants/:id.
InitCategory ==
    /\ \E cs \in SUBSET CategoryIds, id \in CategoryIds,
          ps \in [PlantIds -> [exists : {TRUE}, categoriesIds : SUBSET CategoryIds \ {{}}]] :
       \E o \in {NewOther("assign", ids, Ids(c)) :
                    ids \in SUBSET PlantIds \ {{}}, c \in SUBSET CategoryIds \ {{}}}
                \cup {NewOther("put", {p}, b) :
                         p \in PlantIds, b \in {Undef, Ids(CategoryIds \ {id})}}
                \cup {NewOther("delete", {p}, Undef) : p \in PlantIds} :
          cat = [categories |-> cs, plants |-> ps, del |-> NewDelete(id), other |-> o]
    /\ req = NoQuery /\ options = NoOptions /\ pc = "idle" /\ Idle
    /\ db = {} /\ writes = 0
    /\ NoPurchase
    /\ NoPredicateCheck
    /\ peer = NoValue /\ sale = NoValue

NoOtherChange == UNCHANGED <<qbVars, storeVars, buyVars, fv, peer, sale>>

\* part_002 lines 385-388: Categories.findById, 404 when there is none.
CategoryFindById ==
    /\ cat.del.pc = "start"
    /\ cat' = [cat EXCEPT !.del =
                  IF cat.del.id \in cat.categories
                  THEN [@ EXCEPT !.pc = "delete", !.found = TRUE]
                  ELSE [@ EXCEPT !.pc = "answered", !.after = cat.plants, !.status = 404]]
    /\ NoOtherChange

\* part_002 line 391: Categories.findByIdAndDelete.
CategoryFindByIdAndDelete ==
    /\ cat.del.pc = "delete"
    /\ cat' = [cat EXCEPT !.categories = @ \ {cat.del.id}, !.del.pc = "find"]
    /\ NoOtherChange

\* part_002 lines 397-399: the categories the plant had at the find,
\* without the deleted one.
RemainingCategories(affectedPlant, id) == affectedPlant.categoriesIds \ {id}

\* part_002 lines 396 and 417-420: with no affectedPlant left to visit the loop
\* ends and the request answers success, without another await.
LoopOn(c) ==
    IF c.del.affected = {}
    THEN [c EXCEPT !.del.pc = "answered", !.del.status = 200, !.del.after = c.plants]
    ELSE [c EXCEPT !.del.pc = "loop"]

\* part_002 line 394: Plants.find({ categoriesIds: id }), the plants that
\* hold the category, as they are now.
CategoryFindAffected ==
    /\ cat.del.pc = "find"
    /\ cat' = LoopOn([cat EXCEPT
                  !.del.seen = cat.plants,
                  !.del.affected =
                      {[id |-> p, categoriesIds |-> cat.plants[p].categoriesIds] :
                          p \in {x \in PlantIds : /\ cat.plants[x].exists
                                                  /\ cat.del.id \in cat.plants[x].categoriesIds}}])
    /\ NoOtherChange

\* part_002 lines 401-403: a affectedPlant left without category is deleted.
CategoryDeletePlant ==
    /\ cat.del.pc = "loop"
    /\ \E affectedPlant \in cat.del.affected :
          /\ RemainingCategories(affectedPlant, cat.del.id) = {}
          /\ cat' = LoopOn([cat EXCEPT !.plants[affectedPlant.id].exists = FALSE,
                                       !.del.affected = @ \ {affectedPlant},
                                       !.del.changed = @ \cup {affectedPlant.id}])
    /\ NoOtherChange

\* part_002 lines 410-413: affectedPlant.categoriesIds = remainingCategories;
\* affectedPlant.save() writes the whole list.  On a affectedPlant that is gone save
\* rejects (DocumentNotFoundError) or, in older versions of the library,
\* writes nothing.
CategorySavePlant ==
    /\ cat.del.pc = "loop"
    /\ \E affectedPlant \in cat.del.affected :
          /\ RemainingCategories(affectedPlant, cat.del.id) # {}
          /\ IF cat.plants[affectedPlant.id].exists
             THEN cat' = LoopOn([cat EXCEPT !.plants[affectedPlant.id].categoriesIds =
                                                 RemainingCategories(affectedPlant, cat.del.id),
                                            !.del.affected = @ \ {affectedPlant},
                                            !.del.changed = @ \cup {affectedPlant.id}])
             ELSE \/ cat' = [cat EXCEPT !.del.pc = "answered", !.del.status = 500,
                                        !.del.after = cat.plants]
                  \/ cat' = LoopOn([cat EXCEPT !.del.affected = @ \ {affectedPlant}])
    /\ NoOtherChange

\* users.js lines 886-889: updateMany with $addToSet on the plants named;
\* the categories are not looked up.
AssignCategories ==
    /\ cat.other.kind = "assign" /\ cat.other.pc = "start"
    /\ cat' = [cat EXCEPT
                  !.plants = [p \in PlantIds |->
                                 IF p \in cat.other.plantIds /\ @[p].exists
                                 THEN [@[p] EXCEPT !.categoriesIds =
                                                       @ \cup cat.other.categoriesIds.ids]
                                 ELSE @[p]],
                  !.other.pc = "answered", !.other.status = 200]
    /\ NoOtherChange

\* The plant a PUT or DELETE request names.
PlantOf(o) == CHOOSE p \in o.plantIds : TRUE

\* users.js lines 665-668 and 823-826: Plants.findById, 404 when there is
\* none.
PlantFindById ==
    /\ cat.other.kind \in {"put", "delete"} /\ cat.other.pc = "start"
    /\ cat' = [cat EXCEPT !.other =
                  IF cat.plants[PlantOf(cat.other)].exists
                  THEN [@ EXCEPT !.pc = "found", !.existing = cat.plants[PlantOf(cat.other)]]
                  ELSE [@ EXCEPT !.pc = "answered", !.status = 404]]
    /\ NoOtherChange

\* users.js lines 670-678 and 721-724: categoriesIds is the body's list or
\* the one read at line 665; findByIdAndUpdate writes it.  With the plant
\* gone, updated is null and line 728 throws: 400.
PutFindByIdAndUpdate ==
    /\ cat.other.kind = "put" /\ cat.other.pc = "found"
    /\ LET p == PlantOf(cat.other)
           categoriesIds == IF Truthy(cat.other.categoriesIds)
                            THEN cat.other.categoriesIds.ids
                            ELSE cat.other.existing.categoriesIds
       IN  IF cat.plants[p].exists
           THEN cat' = [cat EXCEPT !.plants[p].categoriesIds = categoriesIds,
                                   !.other.pc = "answered", !.other.status = 200]
           ELSE cat' = [cat EXCEPT !.other.pc = "answered", !.other.status = 400]
    /\ NoOtherChange

\* users.js line 828: Plants.findByIdAndDelete.
PlantFindByIdAndDelete ==
    /\ cat.other.kind = "delete" /\ cat.other.pc = "found"
    /\ cat' = [cat EXCEPT !.plants[PlantOf(cat.other)].exists = FALSE,
                          !.other.pc = "answered", !.other.status = 200]
    /\ NoOtherChange

NextCategory ==
    \/ CategoryFindById \/ CategoryFindByIdAndDelete \/ CategoryFindAffected
    \/ CategoryDeletePlant \/ CategorySavePlant
    \/ AssignCategories \/ PlantFindById \/ PutFindByIdAndUpdate \/ PlantFindByIdAndDelete

SpecCategory == InitCategory /\ [][NextCategory]_vars

-----------------------------------------------------------------------------
(* Properties of the invocation.                                           *)

Parsed == pc # "start" /\ ~(thrown.t = "error" /\ thrown.at = "parse")
Counted == countArgs.t = "count"
Fetched == fetchArgs.t = "fetch"
Returned == response.t = "envelope"

\* The fields a request names through filter or filter[<field>].
RequestedFields(q) ==
    {q.bracket[i][1] : i \in 1..Len(q.bracket)}
    \cup (IF q.filter.t = "obj" THEN {q.filter.o[i][1] : i \in 1..Len(q.filter.o)} ELSE {})

DisallowedFields ==
    IF Len(Config(options).allowedFilterFields) = 0 THEN {}
    ELSE {f \in RequestedFields(req) : ~Includes(Config(options).allowedFilterFields, f)}

\* The predicates that the categories parameter, the search and the date
\* range write, each under its own key.
FromOtherSource(key, pred) ==
    \/ key = s_categoriesIds /\ pred.op = "eq" /\ pred.v.t = "id"
    \/ key = s_or /\ pred.op = "or"
    \/ key = DateFieldOf(options) /\ pred.op = "range"

\* C1 as stated: with a non-empty allowedFilterFields, the filter given to
\* the count and to the fetch has no key for a requested field that is not
\* allowed, whatever else the request carries.
C1_NoKeyForDisallowedField ==
    /\ Counted => \A f \in DisallowedFields : f \notin DOMAIN countArgs.filter
    /\ Fetched => \A f \in DisallowedFields : f \notin DOMAIN fetchArgs.filter

\* C1 amended: the filter given to the count and to the fetch holds no
\* predicate built from a requested field that is not allowed; a key of that
\* name is there only with the predicate that the categories parameter, the
\* search or the date range put under it.  The count and the fetch get the
\* same filter, and the build step fails only on an invalid search pattern.
C1_DisallowedFieldDropped ==
    /\ Counted =>
          \A f \in DisallowedFields :
              f \in DOMAIN countArgs.filter => FromOtherSource(f, countArgs.filter[f])
    /\ Fetched =>
          /\ fetchArgs.filter = countArgs.filter
          /\ \A f \in DisallowedFields :
                f \in DOMAIN fetchArgs.filter => FromOtherSource(f, fetchArgs.filter[f])
    /\ (thrown.t = "error" /\ thrown.at = "build") => SearchThrows(req, options)

\* C1 witness: an envelope was returned for a request that named a field
\* outside the allowlist next to an allowed one; only the allowed one is in
\* the filter.
C1_Witness ==
    /\ Returned
    /\ DisallowedFields # {}
    /\ \E f \in RequestedFields(req) : f \in DOMAIN fetchArgs.filter
    /\ \A f \in DisallowedFields : f \notin DOMAIN fetchArgs.filter

\* The field a string sort parameter names.
SortFieldName(v) == IF Head(v.s) = "-" THEN Tail(v.s) ELSE v.s

SortRefused ==
    /\ IsStr(req.sort) /\ Truthy(req.sort)
    /\ Len(Config(options).allowedSortFields) > 0
    /\ ~Includes(Config(options).allowedSortFields, SortFieldName(req.sort))

\* C2: a sort parameter naming a field outside a non-empty allowedSortFields
\* makes the sort { defaultSort: -1 }; the fetch is given that sort, and the
\* parse step raises nothing.
C2_RefusedSortFallsBack ==
    SortRefused =>
        /\ Parsed => sortObject = SortOn(Config(options).defaultSort, -1)
        /\ Fetched => fetchArgs.sort = SortOn(Config(options).defaultSort, -1)
        /\ thrown.t = "error" => thrown.at # "parse"

\* C2 witness: a refused sort on a field other than the default, fetched and
\* answered.
C2_Witness ==
    /\ SortRefused /\ Returned
    /\ SortFieldName(req.sort) # Config(options).defaultSort
    /\ response.query_info.sort_by = Config(options).defaultSort
    /\ response.query_info.sort_direction = "desc"

\* A string that is a decimal integer: an optional minus sign, then digits.
IsIntegerLiteral(s) ==
    LET body == IF s # <<>> /\ Head(s) = "-" THEN Tail(s) ELSE s
    IN  body # <<>> /\ \A i \in 1..Len(body) : IsDigit(body[i])

IntegerLiteralValue(s) ==
    IF Head(s) = "-" THEN 0 - DigitsValue(Tail(s), 0) ELSE DigitsValue(s, 0)

RequestedLimitIsInteger == IsStr(req.limit) /\ IsIntegerLiteral(req.limit.s)
RequestedLimit == IntegerLiteralValue(req.limit.s)

LimitInRange ==
    /\ 1 <= limit /\ limit <= Config(options).maxLimit
    /\ Fetched => fetchArgs.limit = limit
    /\ Returned => response.per_page = limit

\* C3 as stated: 1 <= effective limit <= maxLimit, and effective limit <=
\* requested limit whenever the requested limit is a number <= maxLimit.
C3_LimitBounds ==
    Parsed =>
        /\ LimitInRange
        /\ (RequestedLimitIsInteger /\ RequestedLimit <= Config(options).maxLimit)
               => limit <= RequestedLimit

\* C3 amended: 1 <= effective limit <= maxLimit, and effective limit <=
\* requested limit whenever the requested limit is an integer with
\* 1 <= requested limit <= maxLimit.
C3_LimitBoundsFromOne ==
    Parsed =>
        /\ LimitInRange
        /\ (RequestedLimitIsInteger /\ 1 <= RequestedLimit
                /\ RequestedLimit <= Config(options).maxLimit)
               => limit <= RequestedLimit

\* C3 witness: an envelope for a requested limit above maxLimit, capped.
C3_Witness ==
    /\ Returned
    /\ RequestedLimitIsInteger /\ RequestedLimit > Config(options).maxLimit
    /\ response.per_page = Config(options).maxLimit

BadDateBound(v) == Truthy(v) /\ ~NewDate(v).valid
BadDate == BadDateBound(req.date_from) \/ BadDateBound(req.date_to)

C6_StoreFailureWrapped ==
    (thrown.t = "error" /\ thrown.at \in {"resolve", "count", "fetch"}) =>
        /\ pc \in {"catch", "failed"}
        /\ ~Returned
        /\ pc = "failed" =>
              /\ error.name = "Error"
              /\ error.message = QueryBuilderPrefix \o thrown.message

\* C6 witness: the fetch failed after the count had succeeded.
C6_Witness ==
    /\ pc = "failed" /\ thrown.at = "fetch" /\ Counted /\ totalCount > 0
    /\ ~Returned

\* C7: the envelope reports the total as counted on the collection as it
\* was at the count, and data as fetched from the collection as it was at
\* the fetch; nothing re-counts.
C7_CountAndFetchSeparate ==
    Returned =>
        /\ response.total = Cardinality(Matching(countArgs.db, countArgs.filter))
        /\ \E f \in Orders(Matching(fetchArgs.db, fetchArgs.filter), fetchArgs.sort) :
              response.data = Window(f, fetchArgs.skip, fetchArgs.limit)
        /\ response.last_page = Ceil(response.total, response.per_page)

\* C7 witness: a document was written between the count and the fetch, and
\* the envelope's total, from and to do not fit its data.
C7_Witness ==
    /\ Returned
    /\ countArgs.db # fetchArgs.db
    /\ response.total # Cardinality(Matching(fetchArgs.db, fetchArgs.filter))
    /\ response.total > 0
    /\ response.to.n - response.from.n + 1 # Len(response.data)

\* C9: the skip given to the fetch is (page - 1) * limit for the page and
\* limit the envelope reports, and is not negative.
C9_SkipIsPageTimesLimit ==
    Fetched =>
        /\ fetchArgs.skip = (page - 1) * limit
        /\ fetchArgs.skip >= 0
        /\ Returned =>
              fetchArgs.skip = (response.current_page - 1) * response.per_page

\* C9 witness: an envelope for a page after the first.
C9_Witness == Returned /\ response.current_page > 1 /\ fetchArgs.skip > 0


\* A string that begins, after white space and one sign, with a digit.
StartsWithInteger(s) ==
    LET t    == TrimStart(s)
        body == IF t # <<>> /\ Head(t) \in {"-", "+"} THEN Tail(t) ELSE t
    IN  body # <<>> /\ IsDigit(Head(body))

\* A string that is a decimal number: digits, at most one point, white
\* space around it allowed.
IsNumberLiteral(s) ==
    LET t    == Trim(s)
        body == IF t # <<>> /\ Head(t) = "-" THEN Tail(t) ELSE t
    IN  /\ \E i \in 1..Len(body) : IsDigit(body[i])
        /\ \A i \in 1..Len(body) : IsDigit(body[i]) \/ body[i] = "."
        /\ Cardinality({i \in 1..Len(body) : body[i] = "."}) <= 1

NotANumber(v) == ~IsStr(v) \/ ~IsNumberLiteral(v.s)
BelowOne(v) == IsStr(v) /\ IsIntegerLiteral(v.s) /\ IntegerLiteralValue(v.s) < 1
NoLeadingInteger(v) == ~StartsWithInteger(ToStringJs(v))

DefaultLimitCapped == Min(Config(options).defaultLimit, Config(options).maxLimit)

PageAndLimitNeverThrow ==
    (thrown.t = "error" /\ thrown.at = "parse") =>
        (SortThrows(req) \/ (Truthy(req.categories) /\ ~IsStr(req.categories)))

\* C10 as stated: page and limit never make the call fail; page is 1 for
\* every page input below 1 or not a number; limit is defaultLimit, capped
\* at maxLimit, for every limit input that is missing or not a number.
C10_MalformedDefaulted ==
    /\ PageAndLimitNeverThrow
    /\ Parsed =>
          /\ (NotANumber(req.page) \/ BelowOne(req.page)) => page = 1
          /\ NotANumber(req.limit) => limit = DefaultLimitCapped

\* C10 amended: page and limit never make the call fail; page is 1 for
\* every page input that is an integer below 1 or does not begin with an
\* integer; limit is defaultLimit, capped at maxLimit, for every limit input
\* that does not begin with an integer.  (An input that begins with an
\* integer, as 2a does, is read as that integer.)
C10_NoLeadingIntegerDefaulted ==
    /\ PageAndLimitNeverThrow
    /\ Parsed =>
          /\ (NoLeadingInteger(req.page) \/ BelowOne(req.page)) => page = 1
          /\ NoLeadingInteger(req.limit) => limit = DefaultLimitCapped

\* C10 witness: an envelope for page=-1 and a limit of letters.
C10_Witness ==
    /\ Returned
    /\ req.page = Str(<<"-", "1">>) /\ req.limit = Str(<<"a">>)
    /\ response.current_page = 1
    /\ response.per_page = DefaultLimitCapped


\* C11: last_page is the least number of pages of per_page documents that
\* hold total documents, that is ceil(total / per_page), and it is 0 when
\* total is 0.
C11_LastPageIsCeil ==
    Returned =>
        /\ response.per_page >= 1 /\ response.total >= 0
        /\ response.last_page * response.per_page >= response.total
        /\ (response.last_page - 1) * response.per_page < response.total
        /\ response.total = 0 => response.last_page = 0

\* C11 witness: a total that is not a multiple of per_page, on more than
\* one page.
C11_Witness ==
    /\ Returned
    /\ response.total % response.per_page # 0
    /\ response.last_page = 2 /\ response.per_page = 2

\* C12: from and to are null when total is 0; otherwise from is skip + 1
\* and to is the smaller of skip + per_page and total.  Line 287-288 on 25
\* documents, page 2, limit 10 give 11 and 20, on 3 pages.
C12_FromAndTo ==
    /\ Returned =>
          /\ response.total = 0 => response.from = JsNull /\ response.to = JsNull
          /\ response.total > 0 =>
                /\ response.from = Num(fetchArgs.skip + 1)
                /\ response.to.t = "num"
                /\ response.to.n <= fetchArgs.skip + response.per_page
                /\ response.to.n <= response.total
                /\ response.to.n \in {fetchArgs.skip + response.per_page, response.total}
    /\ FromOf(25, SkipOf(2, 10)) = Num(11)
    /\ ToOf(25, SkipOf(2, 10), 10) = Num(20)
    /\ Ceil(25, 10) = 3

\* C12 witness: a page in the middle of the result, with from and to both
\* numbers, and the total beyond the page.
C12_Witness ==
    /\ Returned
    /\ response.total = 3 /\ response.current_page = 2 /\ response.per_page = 1
    /\ response.from = Num(2) /\ response.to = Num(2)

-----------------------------------------------------------------------------
(* Reading a URL back: the query string is split into its key=value pairs  *)
(* and each side percent-decoded, as the framework's query parser does.    *)

\* The part of a URL after its first '?'.
QueryOf(url) ==
    IF \E i \in 1..Len(url) : url[i] = "?"
    THEN LET i == CHOOSE j \in 1..Len(url) :
                      url[j] = "?" /\ \A k \in 1..(j - 1) : url[k] # "?"
         IN  SubSeq(url, i + 1, Len(url))
    ELSE <<>>

\* s split at every sep; cur is the piece being read.
RECURSIVE SplitOn(_, _, _)
SplitOn(s, sep, cur) ==
    IF s = <<>> THEN <<cur>>
    ELSE IF Head(s) = sep THEN <<cur>> \o SplitOn(Tail(s), sep, <<>>)
    ELSE SplitOn(Tail(s), sep, Append(cur, Head(s)))

\* Percent-decoding, a '+' read as a space.
RECURSIVE DecodeComponent(_)
DecodeComponent(s) ==
    IF s = <<>> THEN <<>>
    ELSE IF /\ Head(s) = "%" /\ Len(s) >= 3
            /\ \E c \in ReservedChars : PercentCode(c) = SubSeq(s, 1, 3)
         THEN <<CHOOSE c \in ReservedChars : PercentCode(c) = SubSeq(s, 1, 3)>>
              \o DecodeComponent(SubSeq(s, 4, Len(s)))
    ELSE IF Head(s) = "+" THEN <<" ">> \o DecodeComponent(Tail(s))
    ELSE <<Head(s)>> \o DecodeComponent(Tail(s))

\* The decoded <<key, value>> pairs of a query string, in order; a piece is
\* cut at its first '='.
PairsOf(qs) ==
    LET pieces == IF qs = <<>> THEN <<>> ELSE SplitOn(qs, "&", <<>>)
    IN  [i \in 1..Len(pieces) |->
            LET key == Head(SplitOn(pieces[i], "=", <<>>))
            IN  <<DecodeComponent(key),
                  DecodeComponent(SubSeq(pieces[i], Len(key) + 2, Len(pieces[i])))>>]

\* The values a URL's query string gives to a key.
ValuesIn(url, key) ==
    LET pairs == PairsOf(QueryOf(url))
    IN  {pairs[i][2] : i \in {j \in 1..Len(pairs) : pairs[j][1] = key}}

\* C13: next_page_url is there exactly when current_page < last_page and
\* then has page = current_page + 1; prev_page_url is there exactly when
\* current_page > 1 and then has page = current_page - 1; first_page_url has
\* page = 1 and last_page_url has page = last_page.
C13_NavigationUrls ==
    Returned =>
        /\ (response.next_page_url # JsNull) <=> (response.current_page < response.last_page)
        /\ response.next_page_url # JsNull =>
              ValuesIn(response.next_page_url.s, ParamKey("page"))
                  = {DecimalOf(response.current_page + 1)}
        /\ (response.prev_page_url # JsNull) <=> (response.current_page > 1)
        /\ response.prev_page_url # JsNull =>
              ValuesIn(response.prev_page_url.s, ParamKey("page"))
                  = {DecimalOf(response.current_page - 1)}
        /\ ValuesIn(response.first_page_url.s, ParamKey("page")) = {<<"1">>}
        /\ ValuesIn(response.last_page_url.s, ParamKey("page"))
              = {DecimalOf(response.last_page)}

\* C13 witness: a page with a page before it and a page after it.
C13_Witness ==
    /\ Returned
    /\ response.current_page = 2 /\ response.last_page = 3
    /\ response.next_page_url # JsNull /\ response.prev_page_url # JsNull

\* The parameter map the framework's parser makes of a query string whose
\* keys are all different.  With nested set, the keys filter[<field>] are
\* gathered under filter as one object (next to a plain filter value, the
\* two are put in a list); without it they stay keys of their own.
ParseQuery(qs, nested) ==
    LET pairs == PairsOf(qs)
        IsBracket(x) ==
            /\ Len(x[1]) >= 9
            /\ SubSeq(x[1], 1, 7) = ParamKey("filter") \o <<"[">>
            /\ x[1][Len(x[1])] = "]"
        IsNamed(x, name) == x[1] = ParamKey(name)
        Val(name) ==
            IF \E i \in 1..Len(pairs) : IsNamed(pairs[i], name)
            THEN Str(pairs[CHOOSE i \in 1..Len(pairs) : IsNamed(pairs[i], name)][2])
            ELSE Undef
        found == SelectSeq(pairs, IsBracket)
        br == [i \in 1..Len(found) |->
                 <<SubSeq(found[i][1], 8, Len(found[i][1]) - 1), Str(found[i][2])>>]
    IN  [NoQuery EXCEPT
            !.page = Val("page"), !.limit = Val("limit"), !.sort = Val("sort"),
            !.search = Val("search"), !.date_from = Val("date_from"),
            !.date_to = Val("date_to"), !.categories = Val("categories"),
            !.filter = IF nested /\ br # <<>>
                       THEN IF Val("filter") = Undef THEN Obj(br)
                            ELSE Obj(<< <<IndexKey(1), Val("filter")>>, <<IndexKey(2), Obj(br)>> >>)
                       ELSE Val("filter"),
            !.bracket = IF nested THEN <<>> ELSE br]

\* A parameter read back with the value it had; one given as the empty
\* string is read back as absent.
SameParam(v, w) == v = w \/ (v = Str(<<>>) /\ w = Undef)

\* The request read back from first_page_url.
ReadBack(nested) == ParseQuery(QueryOf(response.first_page_url.s), nested)

\* C14 as stated: the request read back from first_page_url (by the parser
\* in one of its two modes) has page 1 and every other parameter of the
\* request with the value it had, the filter source in either shape
\* included, and queryBuilder builds from it the same limit, sort and
\* filter.
C14_FirstPageUrlRoundTrip ==
    Returned =>
        \E nested \in BOOLEAN :
            LET q == ReadBack(nested) IN
            /\ q.page = Str(<<"1">>)
            /\ \A name \in {"limit", "sort", "search", "date_from", "date_to", "categories"} :
                  SameParam(req[name], q[name])
            /\ Entries(FilterToProcessOf(q)) = Entries(FilterToProcessOf(req))
            /\ LimitOf(q, Config(options)) = limit
            /\ SortObjectOf(q, Config(options)) = sortObject
            /\ BuildFilterObject(q, options, FilterToProcessOf(q), EmptyObject)
                  = BuildFilterObject(req, options, FilterToProcessOf(req), EmptyObject)

\* C14, the failing case: the request's filter is an object, and the URL
\* gives filter the text of an object's string conversion; read back, it
\* is a string and no field predicate is built from it.
C14_Witness ==
    /\ Returned
    /\ req.filter.t = "obj" /\ req.bracket = <<>>
    /\ DOMAIN fetchArgs.filter # {}
    /\ ValuesIn(response.first_page_url.s, ParamKey("filter")) = {<<"[","o","b","j","e","c","t"," ","O","b","j","e","c","t","]">>}
    /\ \A nested \in BOOLEAN :
          BuildFilterObject(ReadBack(nested), options,
                            FilterToProcessOf(ReadBack(nested)), EmptyObject) = EmptyObject

\* The parameters of the request that have a value other than the empty
\* string, page aside.
GivenParams ==
    {x \in {QueryParams(req)[i] : i \in 1..Len(QueryParams(req))} :
        x[1] # ParamKey("page") /\ x[2] # Str(<<>>)}

\* The URL holds the parameter with its value: a string as it is, a list
\* as its items joined by commas, an object as one key[<name>] per entry.
Carries(url, key, value) ==
    CASE value.t = "str" -> ValuesIn(url, key) = {value.s}
      [] value.t = "arr" -> ValuesIn(url, key) = {JoinComma(value.a)}
      [] value.t = "obj" ->
             \A i \in 1..Len(value.o) :
                 ValuesIn(url, key \o <<"[">> \o value.o[i][1] \o <<"]">>)
                     = {ToStringJs(value.o[i][2])}
      [] OTHER -> FALSE

\* What C15 says of the URL built for a target page.
UrlHoldsRequest(url, target) ==
    LET pairs == PairsOf(QueryOf(url)) IN
    /\ SubSeq(url, 1, Len(BaseUrlOf(req)) + 1) = BaseUrlOf(req) \o <<"?">>
    /\ \A x \in GivenParams : Carries(url, x[1], x[2])
    /\ ValuesIn(url, ParamKey("page")) = {DecimalOf(target)}
    /\ \A i \in 1..Len(pairs) : pairs[i][2] # <<>>
    /\ \A i, j \in 1..Len(pairs) : i # j => pairs[i][1] # pairs[j][1]

\* C15 as stated: each URL of the envelope is the base URL, then a query
\* string with every parameter of the request that has a non-empty value,
\* the value unchanged, and page set to the URL's target page; no
\* parameter is empty and none is there twice.
C15_BuildUrlKeepsParameters ==
    Returned =>
        /\ UrlHoldsRequest(response.first_page_url.s, 1)
        /\ UrlHoldsRequest(response.last_page_url.s, response.last_page)
        /\ UrlHoldsRequest(response.current_page_url.s, response.current_page)
        /\ response.next_page_url # JsNull =>
              UrlHoldsRequest(response.next_page_url.s, response.current_page + 1)
        /\ response.prev_page_url # JsNull =>
              UrlHoldsRequest(response.prev_page_url.s, response.current_page - 1)

\* C15, the failing case: the request's filter is an object with an entry
\* for name, and the URL of the current page has neither filter[name] nor
\* the entry's value anywhere, only filter=[object Object].
C15_Witness ==
    /\ Returned
    /\ req.filter.t = "obj"
    /\ \E i \in 1..Len(req.filter.o) : req.filter.o[i][1] = s_name
    /\ ValuesIn(response.current_page_url.s, BracketKey(s_name)) = {}
    /\ ValuesIn(response.current_page_url.s, ParamKey("filter")) = {<<"[","o","b","j","e","c","t"," ","O","b","j","e","c","t","]">>}

\* The pieces of s between its commas, by the places of the commas.
Pieces(s) ==
    LET commas == {i \in 1..Len(s) : s[i] = ","}
        n      == Cardinality(commas) + 1
        Cut(k) == IF k = 0 THEN 0
                  ELSE IF k = n THEN Len(s) + 1
                  ELSE CHOOSE i \in commas : Cardinality({j \in commas : j < i}) = k - 1
    IN  [k \in 1..n |-> SubSeq(s, Cut(k - 1) + 1, Cut(k) - 1)]

\* The rule of C16 for field f with value v, on the predicate pred.
FollowsRule(f, v, pred) ==
    IF v.t = "str" /\ (\E i \in 1..Len(v.s) : v.s[i] = ",")
    THEN /\ pred.op = "in"
         /\ pred.vs = [k \in 1..Len(Pieces(v.s)) |-> Trim(Pieces(v.s)[k])]
    ELSE IF v.t = "str" /\ f = s_status
    THEN pred.op = "eq" /\ pred.v = v
    ELSE IF v.t = "str"
    THEN /\ pred.op = "regex"
         /\ \A id \in DocIds :
               DocField(DocOf(id), f).t = "str" =>
                   (FieldMatches(DocOf(id), f, pred)
                       <=> ContainsIgnoreCase(DocField(DocOf(id), f).s, v.s))
    ELSE pred.op = "eq" /\ pred.v = v

\* The entries of the filter source whose field is accepted.
AcceptedEntries ==
    {x \in {Entries(filterToProcess)[i] : i \in 1..Len(Entries(filterToProcess))} :
        FilterAllowed(Config(options), x[1])}

\* The key holds what the search or the date range wrote under it.
WrittenOver(key, pred) ==
    \/ key = s_or /\ pred.op = "or"
    \/ key = DateFieldOf(options) /\ pred.op = "range"

\* C16: for each accepted filter field, the filter given to the store has
\* under that field the predicate of the rule: a string with a comma gives
\* membership in its trimmed pieces, also on status; else a string on
\* status gives an exact match; else a string gives a case-insensitive
\* substring match; a value that is no string gives an exact match on the
\* value as it is.
C16_PredicateRule ==
    Counted =>
        \A x \in AcceptedEntries :
            /\ x[1] \in DOMAIN countArgs.filter
            /\ ~WrittenOver(x[1], countArgs.filter[x[1]])
                  => FollowsRule(x[1], x[2], countArgs.filter[x[1]])

\* C16 witness: filter[status] with a comma and a space gave membership in
\* the two trimmed statuses.
C16_Witness ==
    /\ Counted
    /\ \E x \in AcceptedEntries :
          /\ x[1] = s_status /\ x[2] = Str(s_active \o <<",", " ">> \o s_inactive)
    /\ countArgs.filter[s_status] = InSet(<<s_active, s_inactive>>)

\* searchFields is configured and holds a field.
HasSearchFields == "searchFields" \in DOMAIN options /\ Len(options.searchFields) > 0

\* C17 as stated: the filter given to the store has an OR-group exactly
\* when the request has a search term and searchFields is not empty; the
\* group has one predicate per search field, in their order, each matching
\* the documents whose field contains the term as a substring, letter case
\* ignored; and each accepted field filter is in the filter as well.
C17_SearchOrGroup ==
    Counted =>
        LET filter == countArgs.filter
            group  == s_or \in DOMAIN filter /\ filter[s_or].op = "or"
        IN  /\ group <=> (Truthy(req.search) /\ HasSearchFields)
            /\ group =>
                  /\ Len(filter[s_or].conds) = Len(options.searchFields)
                  /\ \A i \in 1..Len(options.searchFields) :
                        /\ filter[s_or].conds[i][1] = options.searchFields[i]
                        /\ \A id \in DocIds :
                              LET v == DocField(DocOf(id), options.searchFields[i]) IN
                              v.t = "str" =>
                                  (FieldMatches(DocOf(id), options.searchFields[i],
                                                filter[s_or].conds[i][2])
                                      <=> ContainsIgnoreCase(v.s, ToStringJs(req.search)))
                  /\ \A x \in AcceptedEntries : x[1] # s_or => x[1] \in DOMAIN filter

\* C17, the failing case: the search term is a dot; no document has a dot
\* in a search field, yet the count with no other filter is of every
\* document of the collection.
C17_Witness ==
    /\ Counted
    /\ req.search = Str(<<".">>)
    /\ DOMAIN countArgs.filter = {s_or}
    /\ options = PlantsOptions
    /\ countArgs.db # {}
    /\ \A id \in countArgs.db : ~ContainsIgnoreCase(DocOf(id).name, <<".">>)
    /\ totalCount = Cardinality(countArgs.db)

\* C18: with date_from or date_to the filter given to the store has one
\* range predicate, on the date field of the options (createdAt when they
\* name none), with a lower bound exactly when date_from is given and an
\* upper bound exactly when date_to is given; without them it has no range
\* predicate.  Every document returned for date_from=2024-01-01 is dated
\* at or after 2024-01-01T00:00:00Z (1704067200 s), and for
\* date_to=2024-01-31 before 2024-02-01T00:00:00Z (1706745600 s).
C18_DateRange ==
    /\ Counted =>
          LET filter == countArgs.filter
              ranges == {k \in DOMAIN filter : filter[k].op = "range"}
          IN  IF Truthy(req.date_from) \/ Truthy(req.date_to)
              THEN /\ ranges = {IF "dateField" \in DOMAIN options
                                THEN options.dateField ELSE s_createdAt}
                   /\ \A k \in ranges :
                         /\ filter[k].gte.t = "date" <=> Truthy(req.date_from)
                         /\ filter[k].lte.t = "date" <=> Truthy(req.date_to)
              ELSE ranges = {}
    /\ Returned =>
          \A i \in 1..Len(response.data) :
              /\ req.date_from = Str(d_2024_01_01)
                    => DocOf(response.data[i]).createdAt >= 1704067200
              /\ req.date_to = Str(d_2024_01_31)
                    => DocOf(response.data[i]).createdAt < 1706745600

\* C18 witness: both bounds given; a document dated in the range is
\* returned and one dated before it is in the collection and is not.
C18_Witness ==
    /\ Returned
    /\ req.date_from = Str(d_2024_01_01) /\ req.date_to = Str(d_2024_01_31)
    /\ DOMAIN fetchArgs.filter = {s_createdAt}
    /\ 1 \in fetchArgs.db /\ 2 \in fetchArgs.db
    /\ \E i \in 1..Len(response.data) : response.data[i] = 2
    /\ \A i \in 1..Len(response.data) : response.data[i] # 1

\* The sort parameter is a string naming a field the allowlist admits.
SortAdmitted ==
    /\ req.sort.t = "str" /\ req.sort.s # <<>>
    /\ LET name == IF Head(req.sort.s) = "-" THEN Tail(req.sort.s) ELSE req.sort.s
           list == Config(options).allowedSortFields
       IN  Len(list) = 0 \/ \E i \in 1..Len(list) : list[i] = name

\* C19: the sort given to the fetch has one field with one direction; for
\* an admitted sort parameter it is descending on the rest of the parameter
\* after a leading '-', ascending on the whole parameter without one; with
\* no sort parameter it is descending on defaultSort.  With sort=-name and
\* an empty allowlist the documents of the envelope are in strictly
\* descending order of name.
C19_SortSpecification ==
    /\ Fetched =>
          LET sort == fetchArgs.sort IN
          /\ Cardinality(DOMAIN sort) = 1
          /\ \A k \in DOMAIN sort : sort[k] \in {1, -1}
          /\ req.sort \in {Undef, Str(<<>>)} => sort = (Config(options).defaultSort :> -1)
          /\ SortAdmitted =>
                IF Head(req.sort.s) = "-"
                THEN sort = (Tail(req.sort.s) :> -1)
                ELSE sort = (req.sort.s :> 1)
    /\ (Returned /\ req.sort = Str(<<"-">> \o s_name)
            /\ Len(Config(options).allowedSortFields) = 0) =>
          \A i, j \in 1..Len(response.data) :
              i < j => CompareStr(DocOf(response.data[i]).name,
                                  DocOf(response.data[j]).name) = 1

\* C19 witness: sort=-name with an empty allowlist returned three
\* documents, the one named b first and the one named Aa last.
C19_Witness ==
    /\ Returned
    /\ req.sort = Str(<<"-">> \o s_name)
    /\ Len(Config(options).allowedSortFields) = 0
    /\ Len(response.data) = 3
    /\ DocOf(response.data[1]).name = <<"b">>
    /\ DocOf(response.data[3]).name = <<"A", "a">>

\* C20: after parsing, the filter source is the filter parameter when that
\* is an object (a list is one), whatever filter[<field>] keys exist; else
\* it maps each <field> of a filter[<field>] key to that key's value; with
\* neither there is no source, and the filter given to the store has no
\* predicate of a field.
C20_FilterSource ==
    /\ (Parsed /\ pc # "catch") =>
          IF req.filter.t \in {"obj", "arr"}
          THEN filterToProcess = req.filter
          ELSE IF req.bracket # <<>>
               THEN /\ filterToProcess.t = "obj"
                    /\ filterToProcess.o = req.bracket
               ELSE filterToProcess.t \notin {"obj", "arr"}
    /\ Counted =>
          \A k \in DOMAIN countArgs.filter :
              \/ FromOtherSource(k, countArgs.filter[k])
              \/ IF req.filter.t \in {"obj", "arr"}
                 THEN \E i \in 1..Len(Entries(req.filter)) : Entries(req.filter)[i][1] = k
                 ELSE \E i \in 1..Len(req.bracket) : req.bracket[i][1] = k

\* C20 witness: the request has a filter object on status and a
\* filter[name] key; the filter given to the store is on status alone.
C20_Witness ==
    /\ Counted
    /\ req.filter.t = "obj"
    /\ \E i \in 1..Len(req.bracket) : req.bracket[i][1] = s_name
    /\ DOMAIN countArgs.filter = {s_status}

------------------------------------------------------------------------------
(* The categories parameter.                                               *)

\* The positions in the call log of the calls of one operation.
CallsOf(op) == {i \in 1..Len(calls) : calls[i].op = op}

\* A categories parameter that is a name: a non-empty string.
HasCategoryName(q) == q.categories.t = "str" /\ q.categories.s # <<>>

\* The filter the request builds when the category step adds nothing.
FilterWithoutCategory == BuildFilterObject(req, options, filterToProcess, EmptyObject)

\* C21: with a categories parameter that is a name, the resolver is called
\* once, first, with the trimmed name.  When it finds a category (one whose
\* name has the letters of the trimmed name, case aside), the filter gets the
\* exact match categoriesIds = that category's id; when it finds none the
\* filter gets nothing, and the count and the fetch run on the filter of the
\* other parameters and an envelope is returned.
C21_CategoryResolved ==
    (Parsed /\ HasCategoryName(req)) =>
        /\ pc = "resolve" => calls = <<>>
        /\ pc # "resolve" =>
              /\ CallsOf("findOne") = {1}
              /\ ~calls[1].rejected =>
                    /\ calls[1].name = Trim(req.categories.s)
                    /\ IF \E c \in CategoryIds :
                              PrimaryKey(CategoryName(c)) = PrimaryKey(calls[1].name)
                       THEN /\ \E c \in CategoryIds :
                                  /\ PrimaryKey(CategoryName(c)) = PrimaryKey(calls[1].name)
                                  /\ calls[1].result = ObjectId(c)
                            /\ pc = "build" =>
                                  filterObject = Put(EmptyObject, s_categoriesIds,
                                                     Exact(calls[1].result))
                       ELSE /\ calls[1].result = JsNull
                            /\ pc = "build" => filterObject = EmptyObject
                            /\ Counted => countArgs.filter = FilterWithoutCategory
                            /\ Fetched => fetchArgs.filter = FilterWithoutCategory
                            /\ pc = "done" =>
                                  /\ Returned
                                  /\ [i \in 1..Len(calls) |-> calls[i].op]
                                        = <<"findOne", "countDocuments", "find">>

\* A name that no category has: the envelope is returned, with documents.
C21_Witness ==
    /\ Returned
    /\ HasCategoryName(req)
    /\ calls[1].op = "findOne" /\ calls[1].result = JsNull
    /\ response.data # <<>>

------------------------------------------------------------------------------
(* The count and the fetch.                                                *)

\* The request without its page, limit and sort parameters.
Unpaged(q) == [q EXCEPT !.page = Undef, !.limit = Undef, !.sort = Undef]

\* The filter as the category step left it, read from the call log.
ResolvedPart ==
    IF CallsOf("findOne") # {} /\ ~calls[1].rejected /\ calls[1].result # JsNull
    THEN Put(EmptyObject, s_categoriesIds, Exact(calls[1].result))
    ELSE EmptyObject

\* C22: the count and the fetch get the same filter; the filter, and so the
\* count, is the one the request builds without its page, limit and sort;
\* the fetch sorts, then skips, then limits: data holds at most limit
\* documents and is the part of the sorted matching documents after the
\* first skip of them, and when the collection is the same at the count and
\* at the fetch it holds min(limit, total - skip) documents, none when the
\* skip is past the total.
C22_SameFilterSortSkipLimit ==
    /\ Counted =>
          /\ countArgs.filter = BuildFilterObject(Unpaged(req), options,
                                                  FilterToProcessOf(Unpaged(req)), ResolvedPart)
          /\ totalCount = Cardinality(Matching(countArgs.db, countArgs.filter))
    /\ Fetched =>
          /\ fetchArgs.filter = countArgs.filter
          /\ Len(data) <= fetchArgs.limit
          /\ \E f \in Orders(Matching(fetchArgs.db, fetchArgs.filter), fetchArgs.sort) :
                /\ Len(data) = Max(0, Min(fetchArgs.limit, Len(f) - fetchArgs.skip))
                /\ \A i \in 1..Len(data) : data[i] = f[fetchArgs.skip + i]
          /\ fetchArgs.db = countArgs.db =>
                Len(data) = Max(0, Min(fetchArgs.limit, totalCount - fetchArgs.skip))

\* The second page of one document each, of a collection nobody wrote.
C22_Witness ==
    /\ Fetched /\ writes = 0
    /\ fetchArgs.skip = 1 /\ fetchArgs.limit = 1
    /\ totalCount = 2 /\ Len(data) = 1

------------------------------------------------------------------------------
(* Interleaved invocations.                                                *)

\* The filter objects the category step can leave for a request.
ResolvedFilters(q) ==
    IF ~Truthy(q.categories) THEN {EmptyObject}
    ELSE LET found == FindCategories(Trim(q.categories.s))
         IN  IF found = {} THEN {EmptyObject}
             ELSE {Put(EmptyObject, s_categoriesIds, Exact(ObjectId(c))) : c \in found}

\* The envelopes an invocation returns for a request when it runs alone on
\* the collection: none when it throws.
SoloEnvelopes(q, opts, store) ==
    IF \/ SortThrows(q)
       \/ Truthy(q.categories) /\ ~IsStr(q.categories)
       \/ SearchThrows(q, opts)
    THEN {}
    ELSE LET config == Config(opts)
             pg == PageOf(q)
             lim == LimitOf(q, config)
             sk == SkipOf(pg, lim)
             sort == SortObjectOf(q, config)
         IN  UNION {LET filter == BuildFilterObject(q, opts, FilterToProcessOf(q), r)
                        found == Matching(store, filter)
                    IN  IF FilterRejected(filter) THEN {}
                        ELSE {EnvelopeOf(q, opts, pg, lim, sk, sort, filter,
                                         Cardinality(found), Window(f, sk, lim)) :
                                 f \in Orders(found, sort)} :
                    r \in ResolvedFilters(q)}

\* C23: of two invocations that run interleaved on a collection nobody
\* writes, each returns an envelope that it returns when it runs alone on
\* that collection for its own request and options, and the fetch of each
\* is given the sort and the page window of its own request.
C23_InterleavedAsAlone ==
    /\ Returned => response \in SoloEnvelopes(req, options, db)
    /\ peer.response.t = "envelope" =>
          peer.response \in SoloEnvelopes(peer.req, peer.options, db)
    /\ Fetched =>
          /\ fetchArgs.sort = SortObjectOf(req, Config(options))
          /\ fetchArgs.limit = LimitOf(req, Config(options))
          /\ fetchArgs.skip = SkipOf(PageOf(req), fetchArgs.limit)

\* One invocation has returned its envelope while the other, with another
\* request, is suspended at its fetch; their filters, sorts and page
\* windows differ.
C23_Witness ==
    /\ Returned /\ response.data # <<>>
    /\ peer.pc = "fetch" /\ peer.countArgs.t = "count"
    /\ filterObject # peer.filterObject
    /\ peer.sortObject # sortObject
    /\ peer.limit # limit

------------------------------------------------------------------------------
(* The cascade of DELETE /categories/:id.                                  *)

\* The plants that another request deleted by name.
DeletedOnRequest ==
    IF cat.other.kind = "delete" /\ cat.other.status = 200 THEN cat.other.plantIds ELSE {}

\* C24: when DELETE /categories/:id has answered, also with a plant request
\* interleaved: for a category that did not exist the answer is 404 and the
\* request changed no plant; after the answer success the category is gone,
\* and of the plants that held it when the route looked for them (those
\* that a DELETE /plants/:id removed aside) each one whose only category it
\* was is deleted, and each one with other categories exists, has those
\* other categories and has not the deleted one.
C24_CategoryDeleteCascade ==
    cat.del.pc = "answered" =>
        /\ cat.del.found <=> cat.del.status # 404
        /\ cat.del.status = 404 => cat.del.changed = {}
        /\ cat.del.status = 200 =>
              /\ cat.del.id \notin cat.categories
              /\ \A p \in PlantIds \ DeletedOnRequest :
                    LET before == cat.del.seen[p]
                        after == cat.del.after[p]
                    IN  (before.exists /\ cat.del.id \in before.categoriesIds) =>
                            IF before.categoriesIds = {cat.del.id}
                            THEN ~after.exists
                            ELSE /\ after.exists
                                 /\ before.categoriesIds \ {cat.del.id} \subseteq after.categoriesIds
                                 /\ cat.del.id \notin after.categoriesIds

\* The route answered success having deleted one plant and rewritten the
\* other, while a PUT on the rewritten plant was between its read and its
\* write.
C24_Witness ==
    /\ cat.del.pc = "answered" /\ cat.del.status = 200
    /\ \E p, q \in cat.del.changed :
          /\ ~cat.del.after[p].exists
          /\ cat.del.after[q].exists
          /\ cat.other.kind = "put" /\ cat.other.plantIds = {q}
          /\ cat.other.status = 200
          /\ cat.del.id \in cat.del.after[q].categoriesIds

------------------------------------------------------------------------------
(* The order of the calls to the store.                                    *)

\* The operations of the call log, in order.
CallOrder == [i \in 1..Len(calls) |-> calls[i].op]

IsPrefix(s, t) == Len(s) <= Len(t) /\ \A i \in 1..Len(s) : s[i] = t[i]

\* The calls of a whole invocation of the request.
FullCallOrder(q) ==
    IF Truthy(q.categories)
    THEN <<"findOne", "countDocuments", "find">>
    ELSE <<"countDocuments", "find">>

\* C26: the calls of an invocation are, in this order and once each, the
\* category resolver (only with a categories parameter), the count and the
\* fetch; a call is issued only after the calls before it have answered, so
\* a rejected call is the last one; the filter is built after the resolver
\* has answered, the fetch is executed after the count has answered, and
\* an envelope exists only after all calls have answered.
C26_CallOrder ==
    /\ IsPrefix(CallOrder, FullCallOrder(req))
    /\ \A i \in 1..Len(calls) : calls[i].rejected => i = Len(calls)
    /\ (calls # <<>> /\ calls[Len(calls)].rejected) => pc \in {"catch", "failed"}
    /\ pc \in {"build", "count"} =>
          CallOrder = (IF Truthy(req.categories) THEN <<"findOne">> ELSE <<>>)
    /\ Counted => "countDocuments" \in {CallOrder[i] : i \in 1..Len(calls)}
    /\ pc = "fetch" => /\ Counted
                       /\ calls[Len(calls)].op = "countDocuments"
    /\ Fetched => calls[Len(calls)].op = "find"
    /\ (pc = "respond" \/ Returned) =>
          /\ CallOrder = FullCallOrder(req)
          /\ Fetched
          /\ \A i \in 1..Len(calls) : ~calls[i].rejected

\* The count was rejected after the resolver had answered: the invocation
\* has failed without a fetch.
C26_Witness ==
    /\ pc = "failed"
    /\ CallOrder = <<"findOne", "countDocuments">>
    /\ ~calls[1].rejected /\ calls[2].rejected
    /\ ~Fetched /\ ~Returned

------------------------------------------------------------------------------
(* from and to.                                                            *)

\* The count and the fetch saw the same collection.
NoWriteBetween == Counted /\ Fetched /\ countArgs.db = fetchArgs.db

\* C27: in every envelope with total > 0, the collection being the same at
\* the count and at the fetch, whatever the page: 1 <= from <= to <= total
\* and to - from + 1 is the number of documents in data.
C27_FromToWindow ==
    (Returned /\ response.total > 0 /\ NoWriteBetween) =>
        /\ 1 <= response.from.n
        /\ response.from.n <= response.to.n
        /\ response.to.n <= response.total
        /\ response.to.n - response.from.n + 1 = Len(response.data)

\* A page beyond the last one of a collection that has documents.
C27_Witness ==
    /\ Returned /\ response.total > 0 /\ NoWriteBetween
    /\ response.current_page > response.last_page
    /\ response.data = <<>>
    /\ response.from.n > response.total

------------------------------------------------------------------------------
(* The sources of the filter.                                              *)

\* The predicates the request asks for, each with the key it goes under:
\* the resolved category, the accepted field filters, the search group and
\* the date range.
RequestedPredicates ==
    (IF ResolvedPart # EmptyObject
     THEN {<<"categories", s_categoriesIds, ResolvedPart[s_categoriesIds]>>} ELSE {})
    \cup {<<"field", x[1], FieldPredicate(x[1], x[2])>> : x \in AcceptedEntries}
    \cup (IF HasSearch(req, options)
          THEN {<<"search", s_or, AnyOf(SearchConditions(req, options))>>} ELSE {})
    \cup (IF HasDateRange(req)
          THEN {<<"dates", DateFieldOf(options), DateRange(req)>>} ELSE {})

\* C28: the filter handed to the store holds, under its key, the predicate
\* of every source of the request: of the resolved categories parameter, of
\* each accepted field filter, of the search and of the date range, also
\* when two of them go under the same key; and filters_applied is the
\* number of these predicates.
C28_EverySourceKept ==
    /\ pc = "count" =>
          \A x \in RequestedPredicates :
              x[2] \in DOMAIN filterObject /\ filterObject[x[2]] = x[3]
    /\ Returned =>
          response.query_info.filters_applied = Cardinality(RequestedPredicates)

\* categories resolved to a category and filter[categoriesIds] accepted:
\* the filter holds one predicate under categoriesIds, the field filter's.
C28_Witness ==
    /\ pc = "count"
    /\ ResolvedPart # EmptyObject
    /\ \E x \in AcceptedEntries : x[1] = s_categoriesIds
    /\ filterObject[s_categoriesIds] # ResolvedPart[s_categoriesIds]

------------------------------------------------------------------------------
(* query_info.                                                             *)

------------------------------------------------------------------------------
(* The pages the navigation URLs lead to.                                  *)

\* The navigation URLs of the envelope that are not null.
NavigationUrls ==
    {u \in {response.first_page_url, response.last_page_url, response.next_page_url,
            response.prev_page_url, response.current_page_url} : u # JsNull}

\* The value of the page parameter in a URL.
PageParamOf(url) == CHOOSE v \in ValuesIn(url, ParamKey("page")) : TRUE

\* The URL has one page parameter, a number p >= 1, at most last_page when
\* there is a page, and queryBuilder run on the request with that page
\* parameter is on page p.
LeadsToItsPage(url, lastPage) ==
    /\ Cardinality(ValuesIn(url, ParamKey("page"))) = 1
    /\ IsIntegerLiteral(PageParamOf(url))
    /\ LET p == IntegerLiteralValue(PageParamOf(url)) IN
          /\ p >= 1
          /\ lastPage >= 1 => p <= lastPage
          /\ PageOf([req EXCEPT !.page = Str(PageParamOf(url))]) = p

\* C30: every navigation URL of an envelope that is not null carries a page
\* number p >= 1, with p <= last_page whenever last_page >= 1, and a request
\* with the URL's parameters is answered with current_page = p; also
\* last_page_url when total is 0 and prev_page_url when the requested page
\* is beyond the last one.
C30_UrlsLeadToTheirPage ==
    Returned => \A u \in NavigationUrls : LeadsToItsPage(u.s, response.last_page)

\* No document matches: last_page is 0 and last_page_url carries page=0,
\* which a request is answered with as page 1.
C30_Witness ==
    /\ Returned /\ response.total = 0 /\ response.last_page = 0
    /\ PageParamOf(response.last_page_url.s) = <<"0">>
    /\ PageOf([req EXCEPT !.page = Str(<<"0">>)]) = 1

-----------------------------------------------------------------------------
(* The predicate of a single-valued string filter, on every value and      *)
(* every text over a small alphabet: the value goes through the field loop *)
(* of queryBuilder, the predicate through the store's match.               *)
MaxValueLen == 2
MaxTextLen == 3

PatternAlphabet == {"a", "A", ".", "*", "\\"}

StringsUpTo(n) == UNION {[1..k -> PatternAlphabet] : k \in 0..n}

\* A document whose name is the text.
TextDoc(text) ==
    [id |-> 0, name |-> text, status |-> s_active, createdAt |-> 0, categoriesIds |-> {}]

InitPredicate ==
    /\ fv \in {[stage |-> "input", value |-> v, text |-> x, filter |-> EmptyObject,
                matched |-> FALSE] : v \in StringsUpTo(MaxValueLen), x \in StringsUpTo(MaxTextLen)}
    /\ req = NoQuery /\ options = PlantsOptions /\ pc = "idle" /\ Idle
    /\ db = {} /\ writes = 0
    /\ NoPurchase
    /\ NoOtherRoute

\* filter[name]=<value> goes through the field loop.
BuildPredicate ==
    /\ fv.stage = "input"
    /\ fv' = [fv EXCEPT !.stage = "built",
                        !.filter = FieldFilters(Config(options),
                                       << <<s_name, Str(fv.value)>> >>, EmptyObject)]
    /\ UNCHANGED <<qbVars, storeVars, buyVars, peer, cat, sale>>

\* The store matches the document against the filter.
TestPredicate ==
    /\ fv.stage = "built"
    /\ fv' = [fv EXCEPT !.stage = "tested",
                        !.matched = \A k \in DOMAIN fv.filter :
                                        PredMatches(TextDoc(fv.text), k, fv.filter[k])]
    /\ UNCHANGED <<qbVars, storeVars, buyVars, peer, cat, sale>>

NextPredicate == BuildPredicate \/ TestPredicate

SpecPredicate == InitPredicate /\ [][NextPredicate]_vars

\* C4: the predicate of a single-valued string filter on name is a pattern
\* that compiles, and it matches a document exactly when the document's
\* name contains the value as a literal substring, letter case ignored.
C4_EscapedValueMatchesLiterally ==
    /\ fv.stage # "input" =>
          /\ DOMAIN fv.filter = {s_name}
          /\ fv.filter[s_name].op = "regex"
          /\ Compile(fv.filter[s_name].src).ok
    /\ fv.stage = "tested" => (fv.matched <=> ContainsIgnoreCase(fv.text, fv.value))

\* C4 witness: a value that, read as a pattern, would match the text, on
\* a text that does not contain it; the predicate does not match.
C4_Witness ==
    /\ fv.stage = "tested"
    /\ fv.value = <<"a", "*">> /\ fv.text = <<"A">>
    /\ RegexTest(Compile(fv.value).atoms, fv.text)
    /\ ~fv.matched

-----------------------------------------------------------------------------
(* POST /plants/:id/buy: concurrent purchases of one plant.                *)
MaxStock == 2     \* the plant's stock when the purchases start
MaxBuyers == 2    \* concurrent purchase requests

Buyers == 1..MaxBuyers

\* req.body.qty; a JSON number reaches parseInt as its decimal text.
QtyInputs ==
    {Undef, Str(<<"0">>), Str(<<"1">>), Str(<<"2">>), Str(<<"-", "1">>), Str(<<"a">>),
     Str(<<"2", ".", "5">>)}

\* Lines 770-772.
AmountOf(qtyRaw) ==
    LET qty == parseInt(qtyRaw)
    IN  IF ~qty.nan /\ qty.n > 0 THEN qty.n ELSE 1

\* InStock asking only for some stock.
InStock_AnyStock(p, amount) == p.stockCount > 0

\* The condition of findOneAndUpdate: { stockCount: { $gte: amount } }.
InStock(p, amount) == p.stockCount >= amount

NewBuy(q) ==
    [pc |-> "start", qty |-> q, amount |-> 0, seen |-> 0, left |-> 0,
     after |-> NoValue, status |-> 0, message |-> ""]

\* A plant as POST /plants leaves it: on sale only with stock.
InitBuy ==
    /\ \E sc \in 0..MaxStock, fs \in BOOLEAN :
          /\ fs => sc > 0
          /\ plant = [t |-> "plant", stockCount |-> sc, forSale |-> fs, initial |-> sc]
    /\ buy \in [Buyers -> {NewBuy(q) : q \in QtyInputs}]
    /\ req = NoQuery /\ options = NoOptions /\ pc = "idle" /\ Idle
    /\ db = {} /\ writes = 0
    /\ NoPredicateCheck
    /\ NoOtherRoute

\* Lines 770-782: the amount, then findOneAndUpdate, one atomic operation
\* of the store on the document: the decrement happens only if the
\* condition holds.
BuyFindOneAndUpdate(b) ==
    /\ buy[b].pc = "start"
    /\ LET amount == AmountOf(buy[b].qty) IN
          IF InStock(plant, amount)
          THEN /\ plant' = [plant EXCEPT !.stockCount = @ - amount]
               /\ buy' = [buy EXCEPT ![b] =
                             [@ EXCEPT !.pc = "updated", !.amount = amount,
                                       !.seen = plant.stockCount,
                                       !.left = plant.stockCount - amount,
                                       !.after = [t |-> "plant",
                                                  stockCount |-> plant.stockCount - amount,
                                                  forSale |-> plant.forSale]]]
          ELSE /\ plant' = plant
               /\ buy' = [buy EXCEPT ![b] =
                             [@ EXCEPT !.pc = "answered", !.amount = amount,
                                       !.seen = plant.stockCount,
                                       !.left = plant.stockCount,
                                       !.status = 400, !.message = "Yetersiz stok"]]
    /\ UNCHANGED <<qbVars, storeVars, fv, peer, cat, sale>>

\* Lines 784-796: with the stock at 0 the plant is taken off sale, then
\* the purchase is answered.
BuyAnswer(b) ==
    /\ buy[b].pc = "updated"
    /\ IF buy[b].after.stockCount = 0 /\ buy[b].after.forSale
       THEN /\ buy' = [buy EXCEPT ![b] = [@ EXCEPT !.pc = "unlist"]]
            /\ plant' = plant
       ELSE /\ buy' = [buy EXCEPT ![b] = [@ EXCEPT !.pc = "answered", !.status = 200]]
            /\ plant' = plant
    /\ UNCHANGED <<qbVars, storeVars, fv, peer, cat, sale>>

\* Line 785: await Plants.updateOne({ _id }, { $set: { forSale: false } }).
BuyUpdateOne(b) ==
    /\ buy[b].pc = "unlist"
    /\ plant' = [plant EXCEPT !.forSale = FALSE]
    /\ buy' = [buy EXCEPT ![b] = [@ EXCEPT !.pc = "answered", !.status = 200,
                                          !.after = [@ EXCEPT !.forSale = FALSE]]]
    /\ UNCHANGED <<qbVars, storeVars, fv, peer, cat, sale>>

\* Lines 797-799: the store rejects findOneAndUpdate or updateOne.
BuyStoreFails(b) ==
    /\ buy[b].pc \in {"start", "unlist"}
    /\ buy' = [buy EXCEPT ![b] = [@ EXCEPT !.pc = "answered", !.status = 500,
                                          !.message = "connection closed"]]
    /\ UNCHANGED <<plant, qbVars, storeVars, fv, peer, cat, sale>>

NextBuy ==
    \E b \in Buyers :
        BuyFindOneAndUpdate(b) \/ BuyAnswer(b) \/ BuyUpdateOne(b) \/ BuyStoreFails(b)

SpecBuy == InitBuy /\ [][NextBuy]_vars

RECURSIVE SumAmounts(_)
SumAmounts(S) ==
    IF S = {} THEN 0
    ELSE LET b == CHOOSE x \in S : TRUE IN buy[b].amount + SumAmounts(S \ {b})

\* The purchases whose decrement was applied, and those answered 200.
Decremented == {b \in Buyers : buy[b].after.t = "plant"}
Successful  == {b \in Buyers : buy[b].status = 200}
Attempted   == {b \in Buyers : buy[b].pc # "start" /\ ~(buy[b].status = 500 /\ buy[b].after.t = "none")}

IsPositiveInteger(v) == IsStr(v) /\ IsIntegerLiteral(v.s) /\ IntegerLiteralValue(v.s) > 0

\* The integer at the front of a value's text, 0 when there is none.
LeadingInteger(v) ==
    LET t    == TrimStart(ToStringJs(v))
        neg  == t # <<>> /\ Head(t) = "-"
        body == IF t # <<>> /\ Head(t) \in {"-", "+"} THEN Tail(t) ELSE t
        n    == DigitsValue(DigitPrefix(body), 0)
    IN  IF neg THEN 0 - n ELSE n

StockDecrementedAtomically ==
    /\ plant.stockCount >= 0
    /\ plant.stockCount = plant.initial - SumAmounts(Decremented)
    /\ SumAmounts(Successful) <= plant.initial
    /\ \A b \in Attempted :
          /\ buy[b].amount > buy[b].seen =>
                /\ buy[b].status = 400 /\ buy[b].message = "Yetersiz stok"
                /\ buy[b].left = buy[b].seen
          /\ buy[b].amount <= buy[b].seen =>
                /\ b \in Decremented
                /\ buy[b].left = buy[b].seen - buy[b].amount
          /\ buy[b].status = 200 => b \in Decremented

\* C8 as stated: the stock is decremented atomically, and the amount of a
\* purchase is qty, or 1 when qty is missing or not a positive integer.
C8_AtomicBuyAmountIsQtyOrOne ==
    /\ StockDecrementedAtomically
    /\ \A b \in Attempted :
          buy[b].amount = IF IsPositiveInteger(buy[b].qty)
                          THEN IntegerLiteralValue(buy[b].qty.s) ELSE 1

\* C8 amended: the stock is decremented atomically, and the amount of a
\* purchase is the integer at the front of qty when that integer is
\* positive (2 for 2.5), or 1 when qty is missing or begins with no
\* positive integer.
C8_AtomicBuyAmountIsLeadingInteger ==
    /\ StockDecrementedAtomically
    /\ \A b \in Attempted :
          buy[b].amount = IF LeadingInteger(buy[b].qty) > 0
                          THEN LeadingInteger(buy[b].qty) ELSE 1

\* C8 witness: two purchases have raced for the last of the stock; one was
\* answered 200, the other 400, and the stock is 0.
C8_Witness ==
    /\ plant.initial = MaxStock /\ plant.stockCount = 0
    /\ \E b, c \in Buyers :
          /\ buy[b].status = 200 /\ buy[b].amount = MaxStock
          /\ buy[c].status = 400 /\ buy[c].amount <= plant.initial

------------------------------------------------------------------------------
(* The plant routes that write forSale and stockCount (src/routes/users.js):*)
(* POST /plants, PUT /plants/:id, PATCH /plants/:id/sale and                *)
(* PATCH /plants/:id/stock, next to the purchases.  Each await is one       *)
(* operation of the store.                                                  *)

JsBool(b) == [t |-> "bool", b |-> b]

\* String.prototype.toLowerCase on the letters of the words toBool knows.
LowerOf(c) ==
    CASE c = "T" -> "t" [] c = "R" -> "r" [] c = "U" -> "u" [] c = "E" -> "e"
      [] c = "O" -> "o" [] c = "N" -> "n" [] c = "Y" -> "y" [] c = "S" -> "s"
      [] OTHER -> c

toLowerCase(s) == [i \in 1..Len(s) |-> LowerOf(s[i])]

\* Lines 302-306.
toBool(v) ==
    \/ v = JsBool(TRUE)
    \/ v = Num(1)
    \/ v = Str(<<"1">>)
    \/ IsStr(v) /\ toLowerCase(v.s) \in {<<"t","r","u","e">>, <<"o","n">>, <<"y","e","s">>, <<"y">>}

Invalid == [t |-> "INVALID"]

\* Lines 309-314: null for a missing or empty value, 'INVALID' for one that
\* is no integer or is negative.
toNonNegIntOrNull(v) ==
    IF v = Undef \/ v = JsNull \/ v = Str(<<>>) THEN JsNull
    ELSE LET n == parseInt(v)
         IN  IF n.nan \/ n.n < 0 THEN Invalid ELSE Num(n.n)

StockInputs == {Undef, Str(<<"0">>), Str(<<"1">>), Str(<<"-","1">>), Str(<<"a">>)}
SaleInputs == {Undef, JsBool(TRUE), Str(<<"T","r","u","e">>), Str(<<"f","a","l","s","e">>)}
PriceInputs == {Undef, Str(<<"5">>)}

NewSale(kind, stockCount, forSale, price) ==
    [kind |-> kind, pc |-> "start", stockCount |-> stockCount, forSale |-> forSale,
     price |-> price, seen |-> NoValue, status |-> 0]

\* A plant as POST /plants leaves it, the purchases, and one request of the
\* other routes.
InitSale ==
    /\ \E sc \in 0..MaxStock, fs \in BOOLEAN :
          /\ fs => sc > 0
          /\ plant = [t |-> "plant", stockCount |-> sc, forSale |-> fs, initial |-> sc]
    /\ buy \in [Buyers -> {NewBuy(q) : q \in {Undef, Str(<<"2">>)}}]
    /\ \E r \in {NewSale(k, sc, fs, Undef) :
                    k \in {"create", "put"}, sc \in StockInputs, fs \in SaleInputs}
                \cup {NewSale("sale", Undef, fs, p) : fs \in SaleInputs, p \in PriceInputs}
                \cup {NewSale("stock", sc, Undef, Undef) : sc \in StockInputs} :
          sale = [req |-> r, created |-> NoValue]
    /\ req = NoQuery /\ options = NoOptions /\ pc = "idle" /\ Idle
    /\ db = {} /\ writes = 0
    /\ NoPredicateCheck
    /\ peer = NoValue /\ cat = NoValue

\* The body's stockCount as lines 580-586 and 700-706 read it.
GivenStock(r) ==
    IF r.stockCount # Undef /\ r.stockCount # Str(<<>>)
    THEN toNonNegIntOrNull(r.stockCount)
    ELSE JsNull

\* Lines 542-605: the payload of POST /plants; stockCount and forSale have
\* the schema's defaults 0 and false; the document is inserted.
CreatePlant ==
    /\ sale.req.kind = "create" /\ sale.req.pc = "start"
    /\ LET sc == GivenStock(sale.req)
           stockCount == IF sc.t = "num" THEN sc.n ELSE 0
           forSale == IF sale.req.forSale # Undef
                      THEN toBool(sale.req.forSale) /\ stockCount > 0
                      ELSE FALSE
       IN  IF sc = Invalid
           THEN sale' = [sale EXCEPT !.req.pc = "answered", !.req.status = 400]
           ELSE sale' = [sale EXCEPT !.req.pc = "answered", !.req.status = 201,
                                     !.created = [t |-> "plant", stockCount |-> stockCount,
                                                  forSale |-> forSale]]
    /\ UNCHANGED <<qbVars, storeVars, buyVars, fv, peer, cat>>

\* Line 665: const existing = await Plants.findById(req.params.id).
PutFindOne ==
    /\ sale.req.kind = "put" /\ sale.req.pc = "start"
    /\ sale' = [sale EXCEPT !.req.pc = "found", !.req.seen = plant]
    /\ UNCHANGED <<qbVars, storeVars, buyVars, fv, peer, cat>>

\* Lines 675-717: stockCount and forSale of updateData, from the plant as it
\* was read and the body.
UpdateDataOf(r) ==
    LET sc == GivenStock(r)
        stockCount == IF sc.t = "num" THEN sc.n ELSE r.seen.stockCount
        forSale == IF r.forSale # Undef THEN toBool(r.forSale) /\ stockCount > 0
                   ELSE IF stockCount = 0 THEN FALSE ELSE r.seen.forSale
    IN  [stockCount |-> stockCount, forSale |-> forSale]

\* Lines 699-724: 400 on an invalid stockCount, else findByIdAndUpdate
\* writes updateData.
PutUpdate ==
    /\ sale.req.kind = "put" /\ sale.req.pc = "found"
    /\ IF GivenStock(sale.req) = Invalid
       THEN /\ sale' = [sale EXCEPT !.req.pc = "answered", !.req.status = 400]
            /\ plant' = plant
       ELSE /\ plant' = [plant EXCEPT !.stockCount = UpdateDataOf(sale.req).stockCount,
                                      !.forSale = UpdateDataOf(sale.req).forSale]
            /\ sale' = [sale EXCEPT !.req.pc = "answered", !.req.status = 200]
    /\ UNCHANGED <<qbVars, storeVars, buy, fv, peer, cat>>

\* Lines 930-952 of PATCH /:id/sale: the payload; with forSale true the
\* stock is read, and without stock forSale becomes false.
SaleFindById ==
    /\ sale.req.kind = "sale" /\ sale.req.pc = "start"
    /\ IF sale.req.price = Undef /\ sale.req.forSale = Undef
       THEN sale' = [sale EXCEPT !.req.pc = "answered", !.req.status = 400]
       ELSE sale' = [sale EXCEPT
                        !.req.pc = "checked",
                        !.req.seen =
                            IF sale.req.forSale = Undef THEN Undef
                            ELSE IF toBool(sale.req.forSale)
                                 THEN JsBool(plant.stockCount > 0)
                                 ELSE JsBool(FALSE)]
    /\ UNCHANGED <<qbVars, storeVars, buyVars, fv, peer, cat>>

\* Lines 954-958: findByIdAndUpdate with { $set: payload }.
SaleFindByIdAndUpdate ==
    /\ sale.req.kind = "sale" /\ sale.req.pc = "checked"
    /\ plant' = IF sale.req.seen = Undef THEN plant
                ELSE [plant EXCEPT !.forSale = sale.req.seen.b]
    /\ sale' = [sale EXCEPT !.req.pc = "answered", !.req.status = 200]
    /\ UNCHANGED <<qbVars, storeVars, buy, fv, peer, cat>>

\* Lines 1004-1019 of PATCH /:id/stock: 400 without stockCount or on an
\* invalid one, else findByIdAndUpdate sets it; with the stock at 0 and the
\* plant on sale a second write follows.
StockFindByIdAndUpdate ==
    /\ sale.req.kind = "stock" /\ sale.req.pc = "start"
    /\ LET sc == toNonNegIntOrNull(sale.req.stockCount) IN
          IF sale.req.stockCount = Undef \/ sc = Invalid
          THEN /\ sale' = [sale EXCEPT !.req.pc = "answered", !.req.status = 400]
               /\ plant' = plant
          ELSE /\ plant' = [plant EXCEPT !.stockCount = sc.n]
               /\ sale' = IF sc.n = 0 /\ plant.forSale
                          THEN [sale EXCEPT !.req.pc = "save"]
                          ELSE [sale EXCEPT !.req.pc = "answered", !.req.status = 200]
    /\ UNCHANGED <<qbVars, storeVars, buy, fv, peer, cat>>

\* Lines 1021-1024: updated.forSale = false; await updated.save().
StockSave ==
    /\ sale.req.kind = "stock" /\ sale.req.pc = "save"
    /\ plant' = [plant EXCEPT !.forSale = FALSE]
    /\ sale' = [sale EXCEPT !.req.pc = "answered", !.req.status = 200]
    /\ UNCHANGED <<qbVars, storeVars, buy, fv, peer, cat>>

\* The store answers every call.
NextSale ==
    \/ \E b \in Buyers : BuyFindOneAndUpdate(b) \/ BuyAnswer(b) \/ BuyUpdateOne(b)
    \/ CreatePlant \/ PutFindOne \/ PutUpdate
    \/ SaleFindById \/ SaleFindByIdAndUpdate
    \/ StockFindByIdAndUpdate \/ StockSave

SpecSale == InitSale /\ [][NextSale]_vars

------------------------------------------------------------------------------
(* Sale and stock.                                                         *)

\* No request is between its first operation on the store and its answer.
NoRequestInProgress ==
    /\ \A b \in Buyers : buy[b].pc \in {"start", "answered"}
    /\ sale.req.pc \in {"start", "answered"}

OnSaleWithoutStock(p) == p.forSale /\ p.stockCount = 0

\* C25: in every state in which no plant request is in progress, neither
\* the plant nor a plant that POST /plants created has forSale = true
\* together with stockCount = 0.
C25_NoSaleWithoutStock ==
    NoRequestInProgress =>
        /\ ~OnSaleWithoutStock(plant)
        /\ sale.created # NoValue => ~OnSaleWithoutStock(sale.created)

\* PATCH /:id/sale with forSale true and a purchase have both answered
\* success, and the plant is on sale without stock.
C25_Witness ==
    /\ NoRequestInProgress
    /\ sale.req.kind = "sale" /\ sale.req.status = 200
    /\ \E b \in Buyers : buy[b].status = 200
    /\ OnSaleWithoutStock(plant)

====
